---------------------------- MODULE Spec2Model ----------------------------
(***************************************************************************)
(* User-profile provisioning of the LinkedIn scraper dashboard: the        *)
(* public.users table with its constraints and the PL/pgSQL functions      *)
(* get_or_create_user_profile / handle_new_user of the migrations, called  *)
(* by concurrent sessions (getUserProfile in src/lib/supabase-clerk.ts).   *)
(*                                                                         *)
(* Text values are sequences of one-character strings; SQL NULL is the     *)
(* one-element sequence NULL, which no text value equals.  Every SQL       *)
(* statement of a function is one atomic step (READ COMMITTED: each        *)
(* statement sees the rows committed before it).  An INSERT is taken at    *)
(* its commit point: a concurrent conflicting INSERT waits for the first   *)
(* transaction and then fails, and no reader sees the row before.          *)
(***************************************************************************)
EXTENDS Integers, Sequences, FiniteSets, TLC

\* ------------------------------------------------------------------ bounds
\* sessions calling the provisioning function
NumCalls == 2
\* values the random suffix generators may yield
MaxRand == 2
\* async calls of the dashboard that overlap
NumRuns == 2
\* ids a session writing to the tables directly may use up
MaxRows == 3
\* the time after which such a session writes no more
MaxClock == 4

\* ------------------------------------------------------- program constants
\* substring(... from 1 for 8)
IdPrefixLen == 8
\* _max_attempts integer := 10
MaxAttempts == 10
\* floor(random() * 1000)
RandomRange == 1000

\* ------------------------------------------------------------- SQL text
NULL == <<"NULL">>

IsNull(s) == s = NULL

EmptyText == << >>

\* a || b : NULL when either operand is NULL
Concat(a, b) == IF IsNull(a) \/ IsNull(b) THEN NULL ELSE a \o b

COALESCE(a, b) == IF IsNull(a) THEN b ELSE a

NULLIF(a, b) == IF IsNull(a) THEN NULL ELSE IF a = b THEN NULL ELSE a

\* the fields of s separated by the one-character delimiter d
RECURSIVE Fields(_, _)
Fields(s, d) ==
  IF \A i \in 1..Len(s) : s[i] # d
    THEN << s >>
    ELSE LET p == CHOOSE i \in 1..Len(s) : s[i] = d /\ \A j \in 1..(i-1) : s[j] # d
         IN  << SubSeq(s, 1, p - 1) >> \o Fields(SubSeq(s, p + 1, Len(s)), d)

split_part(s, d, n) ==
  IF IsNull(s) THEN NULL
  ELSE LET f == Fields(s, d) IN IF n <= Len(f) THEN f[n] ELSE EmptyText

LowerChar(ch) ==
  CASE ch = "A" -> "a" [] ch = "B" -> "b" [] ch = "C" -> "c" [] ch = "D" -> "d"
    [] ch = "E" -> "e" [] ch = "F" -> "f" [] ch = "G" -> "g" [] ch = "H" -> "h"
    [] ch = "I" -> "i" [] ch = "J" -> "j" [] ch = "K" -> "k" [] ch = "L" -> "l"
    [] ch = "M" -> "m" [] ch = "N" -> "n" [] ch = "O" -> "o" [] ch = "P" -> "p"
    [] ch = "Q" -> "q" [] ch = "R" -> "r" [] ch = "S" -> "s" [] ch = "T" -> "t"
    [] ch = "U" -> "u" [] ch = "V" -> "v" [] ch = "W" -> "w" [] ch = "X" -> "x"
    [] ch = "Y" -> "y" [] ch = "Z" -> "z" [] OTHER -> ch

lower(s) == IF IsNull(s) THEN NULL ELSE [i \in 1..Len(s) |-> LowerChar(s[i])]

\* replace(s, from, to) for a one-character from and any text to
RECURSIVE ReplaceChars(_, _, _)
ReplaceChars(s, from, to) ==
  IF s = << >> THEN << >>
  ELSE (IF Head(s) = from THEN to ELSE << Head(s) >>) \o ReplaceChars(Tail(s), from, to)

replace(s, from, to) == IF IsNull(s) THEN NULL ELSE ReplaceChars(s, from, to)

RECURSIVE LTrim(_)
LTrim(s) == IF s # << >> /\ Head(s) = " " THEN LTrim(Tail(s)) ELSE s

RECURSIVE RTrim(_)
RTrim(s) == IF s # << >> /\ s[Len(s)] = " " THEN RTrim(SubSeq(s, 1, Len(s) - 1)) ELSE s

trim(s) == IF IsNull(s) THEN NULL ELSE RTrim(LTrim(s))

\* substring(s from a for n)
substring(s, a, n) ==
  IF IsNull(s) THEN NULL
  ELSE SubSeq(s, a, IF a + n - 1 < Len(s) THEN a + n - 1 ELSE Len(s))

Digit(n) ==
  CASE n = 0 -> "0" [] n = 1 -> "1" [] n = 2 -> "2" [] n = 3 -> "3" [] n = 4 -> "4"
    [] n = 5 -> "5" [] n = 6 -> "6" [] n = 7 -> "7" [] n = 8 -> "8" [] n = 9 -> "9"

\* n::text for n >= 0
RECURSIVE IntToText(_)
IntToText(n) == IF n < 10 THEN << Digit(n) >> ELSE IntToText(n \div 10) \o << Digit(n % 10) >>


\* ------------------------------------------------------ inputs of the model
Calls == 1..NumCalls

\* the calls of async functions of AppContent that may be under way at once
Runs == 1..NumRuns

\* external subject ids (Clerk user id, auth.users.id as text): S1 and S2
\* differ in their first 8 characters, S1 and S3 share them
S1 == << "a","a","a","a","a","a","a","a","-","1" >>

S2 == << "b","b","b","b","b","b","b","b","-","2" >>

S3 == << "a","a","a","a","a","a","a","a","-","3" >>

\* the subjects the identity provider knows, in one run
SubjectSets == { { S1, S2 }, { S1, S3 } }

J_AT_X == << "j","@","x" >>

J_AT_Y == << "j","@","y" >>

Claim(username, email, first_name, last_name, full_name) ==
  [ username |-> username, email |-> email, first_name |-> first_name,
    last_name |-> last_name, full_name |-> full_name ]

\* what the identity provider presents: the Clerk JWT (email, given_name,
\* family_name, name) or the auth.users row (email, raw_user_meta_data).
\* The claim sets tried: none at all, an email alone (twice the same local
\* part), each way of naming the user, a username hint, a name without email.
ClaimSets ==
  { Claim(NULL, NULL, NULL, NULL, NULL),
    Claim(NULL, J_AT_X, NULL, NULL, NULL),
    Claim(NULL, J_AT_Y, NULL, NULL, NULL),
    Claim(NULL, J_AT_X, NULL, NULL, << "J"," ","D" >>),
    Claim(NULL, J_AT_Y, << "J" >>, << "D" >>, NULL),
    Claim(NULL, J_AT_X, NULL, << "D" >>, NULL),
    Claim(NULL, J_AT_Y, << "J" >>, NULL, NULL),
    Claim(<< "j" >>, J_AT_Y, NULL, NULL, NULL),
    Claim(NULL, NULL, NULL, NULL, << "J"," ","D" >>) }

NoClaims == Claim(NULL, NULL, NULL, NULL, NULL)

\* the provisioning functions of the migrations under src/; one is deployed
Functions ==
  { "stark_coral.get_or_create_user_profile(text)",
    "part_000.handle_new_user",
    "part_000.get_or_create_user_profile(uuid)",
    "part_000.get_or_create_user_profile(text)",
    "small_cell.handle_new_user",
    "small_cell.get_or_create_user_profile(uuid)" }

\* values floor(random() * 1000) may take, cut to the first MaxRand of them
RandomValues == 0..((IF MaxRand < RandomRange THEN MaxRand ELSE RandomRange) - 1)

\* -------------------------------------------------------------- the state
\* fn        the deployed provisioning function
\* identity  what the identity provider holds for each subject: the claims
\*           of its Clerk JWT, or its auth.users row
\* users     the rows of public.users
\* call      per session: the position in its call of fn, the argument, the
\*           function's variables and what came back
\* now       the clock behind now(); nextId the next gen_random_uuid()
VARIABLES fn, identity, users, call, now, nextId

\* apify_keys, scraping_jobs, linkedin_profiles  the other tables of the
\*           migration
\* stmt      the statement a database session ran last, and what it gave
VARIABLES apify_keys, scraping_jobs, linkedin_profiles, stmt

\* clerk     what useUser() gives AppContent: isLoaded, isSignedIn, user
\* initializationRef  the ref of AppContent
\* app       the useState values of AppContent
\* run       the calls of AppContent's async functions that are under way
\* session   how many times Clerk has reported a sign-in
VARIABLES clerk, initializationRef, app, run, session

store == << apify_keys, scraping_jobs, linkedin_profiles, stmt >>

client == << clerk, initializationRef, app, run, session >>

vars == << fn, identity, users, call, now, nextId, store, client >>

\* the all-NULL composite a SELECT INTO leaves when it finds no row; what
\* getUserProfile turns into null
NoRow ==
  [ id |-> 0, auth_user_id |-> NULL, username |-> NULL, email |-> NULL,
    full_name |-> NULL, created_at |-> 0, updated_at |-> 0 ]

IdleCall ==
  [ pc |-> "idle", sub |-> NULL, user_auth_id |-> NULL,
    _username |-> NULL, _full_name |-> NULL, _attempt_count |-> 0,
    temp_username |-> NULL, sqlerr |-> "none", raised |-> FALSE,
    user_profile |-> NoRow, tx |-> 0 ]

\* a statement without a SET list
NoSet == [ f \in {} |-> 0 ]

\* no statement has run
NoStatement ==
  [ uid |-> NULL, rel |-> "none", cmd |-> "none", set |-> NoSet, at |-> 0,
    old |-> {}, rows |-> {}, err |-> "none" ]

\* the other tables are empty after the migration
InitStore ==
  /\ apify_keys = {}
  /\ scraping_jobs = {}
  /\ linkedin_profiles = {}
  /\ stmt = NoStatement

\* useUser() while Clerk is loading
ClerkLoading == [ isLoaded |-> FALSE, isSignedIn |-> FALSE, user |-> NULL ]

\* the useState initial values of AppContent
InitialState ==
  [ userProfile |-> NoRow, profiles |-> {}, scrapingJobs |-> {},
    activeTab |-> "scraper", currentView |-> "form", previousView |-> "form",
    isScraping |-> FALSE, selectedKeyId |-> 0, isLoading |-> TRUE,
    authError |-> FALSE ]

\* a call of an async function of AppContent that has not started
IdleRun ==
  [ pc |-> "idle", handler |-> "none", session |-> 0, user |-> NULL,
    userProfile |-> NoRow, profiles |-> {}, jobs |-> {},
    type |-> "none", selectedKeyId |-> 0, jobId |-> 0, threw |-> FALSE,
    profileUrls |-> << >>, existingProfile |-> << >>, results |-> << >>,
    urlsToScrape |-> << >>, scraped |-> << >>, newProfilesData |-> << >> ]

\* AppContent as it mounts
InitClient ==
  /\ clerk = ClerkLoading
  /\ initializationRef = FALSE
  /\ app = InitialState
  /\ run = [ r \in Runs |-> IdleRun ]
  /\ session = 0

Init ==
  /\ fn \in Functions
  /\ \E S \in SubjectSets : identity \in [ S -> ClaimSets ]
  /\ users = {}
  /\ call = [ c \in Calls |-> IdleCall ]
  /\ now = 1
  /\ nextId = 1
  /\ InitStore
  /\ InitClient

\* ------------------------------------------------------- public.users
\* InsertError with auth_user_id declared without UNIQUE
InsertErrorNoAuthKey(row, tbl) ==
  IF IsNull(row.auth_user_id) \/ IsNull(row.username) \/ IsNull(row.email)
    THEN "not_null_violation"
  ELSE IF \E r \in tbl : r.username = row.username THEN "users_username_key"
  ELSE IF \E r \in tbl : r.email = row.email THEN "users_email_key"
  ELSE "none"

\* InsertError with username declared without UNIQUE
InsertErrorNoUsernameKey(row, tbl) ==
  IF IsNull(row.auth_user_id) \/ IsNull(row.username) \/ IsNull(row.email)
    THEN "not_null_violation"
  ELSE IF \E r \in tbl : r.auth_user_id = row.auth_user_id THEN "users_auth_user_id_key"
  ELSE IF \E r \in tbl : r.email = row.email THEN "users_email_key"
  ELSE "none"

\* CREATE TABLE public.users: NOT NULL on auth_user_id, username, email, then
\* the unique indexes in the order the table declares them
InsertError(row, tbl) ==
  IF IsNull(row.auth_user_id) \/ IsNull(row.username) \/ IsNull(row.email)
    THEN "not_null_violation"
  ELSE IF \E r \in tbl : r.auth_user_id = row.auth_user_id THEN "users_auth_user_id_key"
  ELSE IF \E r \in tbl : r.username = row.username THEN "users_username_key"
  ELSE IF \E r \in tbl : r.email = row.email THEN "users_email_key"
  ELSE "none"

\* SQLSTATE 23505 unique_violation, by the constraint it names
UniqueViolations == { "users_auth_user_id_key", "users_username_key", "users_email_key" }

\* SelectByAuthUserId comparing the wrong column
SelectByAuthUserIdWrongColumn(tbl, user_auth_id) ==
  { r \in tbl : r.username = user_auth_id }

\* SELECT * FROM public.users WHERE auth_user_id = user_auth_id
SelectByAuthUserId(tbl, user_auth_id) == { r \in tbl : r.auth_user_id = user_auth_id }

\* EXISTS (SELECT 1 FROM public.users WHERE username = name); NULL = x is not true
UsernameExists(tbl, name) == ~IsNull(name) /\ \E r \in tbl : r.username = name

\* the row an INSERT of session k proposes; created_at, updated_at are now()
NewRow(k, username, email, full_name) ==
  [ id |-> nextId, auth_user_id |-> k.user_auth_id, username |-> username,
    email |-> email, full_name |-> full_name,
    created_at |-> k.tx, updated_at |-> k.tx ]

\* ------------------------------------------------------------ a request
\* Session c may make its call: the sessions are numbered in the order
\* their calls start.
MayBegin(c) ==
  /\ call[c].pc = "idle"
  /\ \A d \in 1..(c - 1) : call[d].pc # "idle"

\* rpc('get_or_create_user_profile', { user_auth_id: s }) sent with the token
\* of subject a; now() is the start time of its transaction
BeginAs(a, s) == [ IdleCall EXCEPT !.sub = a, !.user_auth_id = s, !.tx = now ]

\* getUserProfile(clerkUserId): the rpc for subject s, sent with the token of
\* the Clerk session, which is the session of s
Begin(s) == BeginAs(s, s)

Subjects == DOMAIN identity

\* auth.jwt() of the session, NEW of the trigger, the auth.users row of the
\* argument
ClaimsOf(k) ==
  IF fn = "stark_coral.get_or_create_user_profile(text)"
    THEN identity[k.sub]
    ELSE identity[k.user_auth_id]

\* the function returns user_profile
Returned(k, row) == [ k EXCEPT !.pc = "done", !.user_profile = row ]

\* an exception leaves the function: the rpc answers with the error and
\* getUserProfile returns null
Raised(k, err) ==
  [ k EXCEPT !.pc = "done", !.sqlerr = err, !.raised = TRUE, !.user_profile = NoRow ]

\* ------------------- stark_coral: get_or_create_user_profile(text)
\* "Fallback strategies for missing data"
ClerkFullName(cl) ==
  IF IsNull(cl.full_name) \/ cl.full_name = EmptyText
    THEN IF ~IsNull(cl.first_name) /\ ~IsNull(cl.last_name)
           THEN Concat(Concat(cl.first_name, << " " >>), cl.last_name)
         ELSE IF ~IsNull(cl.first_name) THEN cl.first_name
         ELSE split_part(cl.email, "@", 1)
    ELSE cl.full_name

\* "Generate a unique username"
ClerkUsername(cl) ==
  lower(replace(COALESCE(ClerkFullName(cl), split_part(cl.email, "@", 1)), " ", << "_" >>))

\* COALESCE(_email, user_auth_id || '@clerk.local')
ClerkEmail(user_auth_id, email) ==
  COALESCE(email, Concat(user_auth_id, << "@","c","l","e","r","k",".","l","o","c","a","l" >>))

\* LookupHit refreshing the row it found, as the ON CONFLICT branch does
LookupHitTouch(c, k, row) ==
  /\ call' = [ call EXCEPT ![c] = Returned(k, [ row EXCEPT !.updated_at = k.tx ]) ]
  /\ users' = (users \ { row }) \cup { [ row EXCEPT !.updated_at = k.tx ] }
  /\ UNCHANGED nextId

\* IF user_profile IS NULL is false: the row found is returned as it is
LookupHit(c, k, row) ==
  /\ call' = [ call EXCEPT ![c] = Returned(k, row) ]
  /\ UNCHANGED << users, nextId >>

\* SELECT * INTO user_profile ...; on a miss the claims are read from the JWT
ClerkSelect(c, k) ==
  /\ fn = "stark_coral.get_or_create_user_profile(text)"
  /\ MayBegin(c)
  /\ LET cl == ClaimsOf(k)
         found == SelectByAuthUserId(users, k.user_auth_id)
     IN  IF found # {}
           THEN LookupHit(c, k, CHOOSE r \in found : TRUE)
           ELSE /\ call' = [ call EXCEPT ![c] =
                               [ k EXCEPT !.pc = "check",
                                          !._full_name = ClerkFullName(cl),
                                          !._username = ClerkUsername(cl) ] ]
                /\ UNCHANGED << users, nextId >>
  /\ now' = now + 1
  /\ UNCHANGED << store, client, fn, identity >>

\* the call getUserProfile makes: the argument is the id of the signed-in user
ClerkLookup(c) == \E s \in Subjects : ClerkSelect(c, Begin(s))

\* ClerkCheckUsername replacing the taken username by the suffix alone
ClerkCheckUsernameReplace(c) ==
  /\ fn = "stark_coral.get_or_create_user_profile(text)"
  /\ call[c].pc = "check"
  /\ IF UsernameExists(users, call[c]._username)
       THEN \E n \in RandomValues :
              call' = [ call EXCEPT ![c]._username = Concat(<< "_" >>, IntToText(n)) ]
       ELSE call' = [ call EXCEPT ![c].pc = "insert" ]
  /\ UNCHANGED << store, client, fn, identity, users, now, nextId >>

\* WHILE EXISTS (SELECT 1 FROM public.users WHERE username = _username) LOOP
ClerkCheckUsername(c) ==
  /\ fn = "stark_coral.get_or_create_user_profile(text)"
  /\ call[c].pc = "check"
  /\ IF UsernameExists(users, call[c]._username)
       THEN \E n \in RandomValues :
              call' = [ call EXCEPT ![c]._username =
                          Concat(Concat(call[c]._username, << "_" >>), IntToText(n)) ]
       ELSE call' = [ call EXCEPT ![c].pc = "insert" ]
  /\ UNCHANGED << store, client, fn, identity, users, now, nextId >>

\* INSERT INTO public.users ... RETURNING * INTO user_profile
ClerkInsert(c) ==
  /\ fn = "stark_coral.get_or_create_user_profile(text)"
  /\ call[c].pc = "insert"
  /\ LET k == call[c]
         row == NewRow(k, k._username, ClerkEmail(k.user_auth_id, ClaimsOf(k).email),
                       k._full_name)
         err == InsertError(row, users)
     IN  IF err = "none"
           THEN /\ users' = users \cup { row }
                /\ nextId' = nextId + 1
                /\ call' = [ call EXCEPT ![c] = Returned(k, row) ]
           ELSE /\ call' = [ call EXCEPT ![c] = Raised(k, err) ]
                /\ UNCHANGED << users, nextId >>
  /\ UNCHANGED << store, client, fn, identity, now >>

\* ------------------------------------- part_000: handle_new_user()
\* NULLIF(trim(NEW.raw_user_meta_data->>'...'), '')
MetaValue(v) == NULLIF(trim(v), EmptyText)

\* _email_prefix := split_part(NEW.email, '@', 1)
EmailPrefix(cl) == split_part(cl.email, "@", 1)

\* "Generate username if not provided"
HnuUsername(cl) == COALESCE(MetaValue(cl.username), EmailPrefix(cl))

\* "Construct final full_name"
HnuFullName(cl) ==
  LET _full_name == MetaValue(cl.full_name)
      _first_name == MetaValue(cl.first_name)
      _last_name == MetaValue(cl.last_name)
  IN  IF IsNull(_full_name)
        THEN IF ~IsNull(_first_name) /\ ~IsNull(_last_name)
               THEN Concat(Concat(_first_name, << " " >>), _last_name)
             ELSE IF ~IsNull(_first_name) THEN _first_name
             ELSE IF ~IsNull(_last_name) THEN _last_name
             ELSE EmailPrefix(cl)
        ELSE _full_name

\* HnuSuffix without the attempt number
HnuSuffixNoCount(id, n) ==
  IF n = 0 THEN EmptyText ELSE Concat(<< "-" >>, substring(id, 1, IdPrefixLen))

\* _unique_suffix of attempt n, for the new record's id
HnuSuffix(id, n) ==
  IF n = 0 THEN EmptyText
  ELSE Concat(Concat(Concat(<< "-" >>, substring(id, 1, IdPrefixLen)), << "-" >>), IntToText(n))

\* HnuFallbackUsername leaving the separators in the id
HnuFallbackUsernameWithHyphens(k) ==
  Concat(Concat(EmailPrefix(ClaimsOf(k)), << "-" >>), k.user_auth_id)

\* "Final fallback: use UUID"
HnuFallbackUsername(k) ==
  Concat(Concat(EmailPrefix(ClaimsOf(k)), << "-" >>), replace(k.user_auth_id, "-", EmptyText))

\* HnuOnUniqueViolation going to the fallback one violation later
HnuOnUniqueViolationLate(k, err) ==
  LET n == k._attempt_count + 1 IN
    IF n > MaxAttempts
      THEN [ k EXCEPT !.pc = "fallback", !._attempt_count = n, !.sqlerr = err,
                      !._username = HnuFallbackUsername(k) ]
      ELSE [ k EXCEPT !.pc = "insert", !._attempt_count = n, !.sqlerr = err ]

\* WHEN unique_violation THEN: count the attempt; after the last one the
\* handler goes on to the fallback INSERT
HnuOnUniqueViolation(k, err) ==
  LET n == k._attempt_count + 1 IN
    IF n >= MaxAttempts
      THEN [ k EXCEPT !.pc = "fallback", !._attempt_count = n, !.sqlerr = err,
                      !._username = HnuFallbackUsername(k) ]
      ELSE [ k EXCEPT !.pc = "insert", !._attempt_count = n, !.sqlerr = err ]

\* one pass of the WHILE loop for the session in state k: the INSERT and its
\* EXCEPTION handlers
HnuAttempt(c, k) ==
  LET row == NewRow(k, Concat(k._username, HnuSuffix(k.user_auth_id, k._attempt_count)),
                    ClaimsOf(k).email, k._full_name)
      err == InsertError(row, users)
  IN  IF err = "none"
        THEN /\ users' = users \cup { row }
             /\ nextId' = nextId + 1
             /\ call' = [ call EXCEPT ![c] = Returned(k, row) ]
      ELSE IF err \in UniqueViolations
        THEN /\ call' = [ call EXCEPT ![c] = HnuOnUniqueViolation(k, err) ]
             /\ UNCHANGED << users, nextId >>
      ELSE /\ call' = [ call EXCEPT ![c] = Raised(k, err) ]
           /\ UNCHANGED << users, nextId >>

\* the trigger fires for NEW, the auth.users row of subject s: its first
\* attempt to insert
HnuFirstInsert(c) ==
  /\ fn = "part_000.handle_new_user"
  /\ MayBegin(c)
  /\ \E s \in Subjects :
       HnuAttempt(c, [ Begin(s) EXCEPT !._username = HnuUsername(identity[s]),
                                        !._full_name = HnuFullName(identity[s]) ])
  /\ now' = now + 1
  /\ UNCHANGED << store, client, fn, identity >>

\* a later pass of the loop
HnuRetryInsert(c) ==
  /\ fn = "part_000.handle_new_user"
  /\ call[c].pc = "insert"
  /\ HnuAttempt(c, call[c])
  /\ UNCHANGED << store, client, fn, identity, now >>

\* the fallback INSERT inside the handler: nothing catches its failure
HnuFallbackInsert(c) ==
  /\ fn = "part_000.handle_new_user"
  /\ call[c].pc = "fallback"
  /\ LET k == call[c]
         row == NewRow(k, k._username, ClaimsOf(k).email, k._full_name)
         err == InsertError(row, users)
     IN  IF err = "none"
           THEN /\ users' = users \cup { row }
                /\ nextId' = nextId + 1
                /\ call' = [ call EXCEPT ![c] = Returned(k, row) ]
           ELSE /\ call' = [ call EXCEPT ![c] = Raised(k, err) ]
                /\ UNCHANGED << users, nextId >>
  /\ UNCHANGED << store, client, fn, identity, now >>

\* ------------------- part_000: get_or_create_user_profile(uuid)
\* the username of the INSERT
UuidUsername(user_auth_id, cl) ==
  COALESCE(MetaValue(cl.username),
           Concat(Concat(split_part(cl.email, "@", 1), << "-" >>),
                  substring(user_auth_id, 1, IdPrefixLen)))

\* the full_name of the INSERT
UuidFullName(cl) ==
  COALESCE(MetaValue(cl.full_name),
           IF ~IsNull(cl.first_name) /\ ~IsNull(cl.last_name)
             THEN Concat(Concat(trim(cl.first_name), << " " >>), trim(cl.last_name))
           ELSE IF ~IsNull(cl.first_name) THEN trim(cl.first_name)
           ELSE split_part(cl.email, "@", 1))

\* "First try to get existing profile"
UuidLookup(c) ==
  /\ fn = "part_000.get_or_create_user_profile(uuid)"
  /\ MayBegin(c)
  /\ \E s \in Subjects :
       LET k == Begin(s)
           found == SelectByAuthUserId(users, s)
       IN  IF found # {}
             THEN LookupHit(c, k, CHOOSE r \in found : TRUE)
             ELSE /\ call' = [ call EXCEPT ![c] =
                                 [ k EXCEPT !.pc = "insert",
                                            !._username = UuidUsername(s, identity[s]),
                                            !._full_name = UuidFullName(identity[s]) ] ]
                  /\ UNCHANGED << users, nextId >>
  /\ now' = now + 1
  /\ UNCHANGED << store, client, fn, identity >>

\* "Create profile with fallback values"
UuidInsert(c) ==
  /\ fn = "part_000.get_or_create_user_profile(uuid)"
  /\ call[c].pc = "insert"
  /\ LET k == call[c]
         row == NewRow(k, k._username, ClaimsOf(k).email, k._full_name)
         err == InsertError(row, users)
     IN  IF err = "none"
           THEN /\ users' = users \cup { row }
                /\ nextId' = nextId + 1
                /\ call' = [ call EXCEPT ![c] = Returned(k, row) ]
           ELSE /\ call' = [ call EXCEPT ![c] = Raised(k, err) ]
                /\ UNCHANGED << users, nextId >>
  /\ UNCHANGED << store, client, fn, identity, now >>

\* ------------------- part_000: get_or_create_user_profile(text)
\* _username := 'user_' || substring(user_auth_id from 1 for 8)
BasicUsername(user_auth_id) ==
  Concat(<< "u","s","e","r","_" >>, substring(user_auth_id, 1, IdPrefixLen))

\* _email := _username || '@example.com'
BasicEmail(user_auth_id) ==
  Concat(BasicUsername(user_auth_id), << "@","e","x","a","m","p","l","e",".","c","o","m" >>)

\* _full_name := 'User ' || substring(user_auth_id from 1 for 8)
BasicFullName(user_auth_id) ==
  Concat(<< "U","s","e","r"," " >>, substring(user_auth_id, 1, IdPrefixLen))

\* "Try to find existing user"
BasicLookup(c) ==
  /\ fn = "part_000.get_or_create_user_profile(text)"
  /\ MayBegin(c)
  /\ \E s \in Subjects :
       LET k == Begin(s)
           found == SelectByAuthUserId(users, s)
       IN  IF found # {}
             THEN LookupHit(c, k, CHOOSE r \in found : TRUE)
             ELSE /\ call' = [ call EXCEPT ![c] =
                                 [ k EXCEPT !.pc = "insert",
                                            !._username = BasicUsername(s),
                                            !._full_name = BasicFullName(s) ] ]
                  /\ UNCHANGED << users, nextId >>
  /\ now' = now + 1
  /\ UNCHANGED << store, client, fn, identity >>

\* "Insert new user"
BasicInsert(c) ==
  /\ fn = "part_000.get_or_create_user_profile(text)"
  /\ call[c].pc = "insert"
  /\ LET k == call[c]
         row == NewRow(k, k._username, BasicEmail(k.user_auth_id), k._full_name)
         err == InsertError(row, users)
     IN  IF err = "none"
           THEN /\ users' = users \cup { row }
                /\ nextId' = nextId + 1
                /\ call' = [ call EXCEPT ![c] = Returned(k, row) ]
           ELSE /\ call' = [ call EXCEPT ![c] = Raised(k, err) ]
                /\ UNCHANGED << users, nextId >>
  /\ UNCHANGED << store, client, fn, identity, now >>

\* ----------------------------------- small_cell: both functions
HexDigit(n) ==
  CASE n < 10 -> Digit(n) [] n = 10 -> "a" [] n = 11 -> "b" [] n = 12 -> "c"
    [] n = 13 -> "d" [] n = 14 -> "e" [] n = 15 -> "f"

\* substring(gen_random_uuid()::text from 1 for 4) of a uuid whose first 16
\* bits are n
UuidPrefix4(n) ==
  << HexDigit((n \div 4096) % 16), HexDigit((n \div 256) % 16),
     HexDigit((n \div 16) % 16), HexDigit(n % 16) >>

\* the first 16 bits gen_random_uuid() may have, cut to the first MaxRand
UuidValues == 0..(MaxRand - 1)

\* INSERT ... ON CONFLICT (auth_user_id) DO UPDATE SET email = EXCLUDED.email,
\* full_name = EXCLUDED.full_name, updated_at = now(): the error, or "none"
UpsertError(row, tbl) ==
  IF IsNull(row.username) \/ IsNull(row.email) THEN "not_null_violation"
  ELSE IF \E r \in tbl : r.auth_user_id = row.auth_user_id
    THEN IF \E r \in tbl : r.auth_user_id # row.auth_user_id /\ r.email = row.email
           THEN "users_email_key" ELSE "none"
  ELSE IF \E r \in tbl : r.username = row.username THEN "users_username_key"
  ELSE IF \E r \in tbl : r.email = row.email THEN "users_email_key"
  ELSE "none"

\* UpsertRow with username = EXCLUDED.username in the SET list
UpsertRowWithUsername(row, tbl) ==
  IF \E r \in tbl : r.auth_user_id = row.auth_user_id
    THEN LET old == CHOOSE r \in tbl : r.auth_user_id = row.auth_user_id
         IN  [ old EXCEPT !.username = row.username, !.email = row.email,
                          !.full_name = row.full_name, !.updated_at = row.updated_at ]
    ELSE row

\* the row the statement leaves: the conflicting row updated, or the new row
UpsertRow(row, tbl) ==
  IF \E r \in tbl : r.auth_user_id = row.auth_user_id
    THEN LET old == CHOOSE r \in tbl : r.auth_user_id = row.auth_user_id
         IN  [ old EXCEPT !.email = row.email, !.full_name = row.full_name,
                          !.updated_at = row.updated_at ]
    ELSE row

\* UpsertTable deleting the conflicting row and inserting the new one
UpsertTableReplace(row, tbl) ==
  { r \in tbl : r.auth_user_id # row.auth_user_id } \cup { row }

\* the table after the statement
UpsertTable(row, tbl) ==
  { r \in tbl : r.auth_user_id # row.auth_user_id } \cup { UpsertRow(row, tbl) }

\* "Generate username if not provided" of handle_new_user
ScHnuUsername(cl) ==
  IF IsNull(cl.username) \/ cl.username = EmptyText
    THEN split_part(cl.email, "@", 1) ELSE cl.username

\* "Generate full_name if not provided" of handle_new_user
ScHnuFullName(cl) ==
  IF IsNull(cl.full_name) \/ cl.full_name = EmptyText
    THEN IF ~IsNull(cl.first_name) /\ ~IsNull(cl.last_name)
           THEN Concat(Concat(cl.first_name, << " " >>), cl.last_name)
           ELSE split_part(cl.email, "@", 1)
    ELSE cl.full_name

\* of get_or_create_user_profile(uuid)
ScGetUsername(cl) == COALESCE(cl.username, split_part(cl.email, "@", 1))

\* of get_or_create_user_profile(uuid)
ScGetFullName(cl) ==
  COALESCE(cl.full_name,
           IF ~IsNull(cl.first_name) /\ ~IsNull(cl.last_name)
             THEN Concat(Concat(cl.first_name, << " " >>), cl.last_name)
             ELSE split_part(cl.email, "@", 1))

\* WHEN OTHERS THEN RAISE WARNING ...; RETURN NEW: the trigger returns, the
\* error is logged
Swallowed(k, err) == [ k EXCEPT !.pc = "done", !.sqlerr = err, !.user_profile = NoRow ]

\* one pass of LOOP ... END LOOP: the EXISTS query on temp_username
ScCheck(k) ==
  IF UsernameExists(users, k.temp_username)
    THEN { [ k EXCEPT !.pc = "check",
                      !.temp_username =
                         Concat(Concat(k._username, << "_" >>), UuidPrefix4(n)) ]
           : n \in UuidValues }
    ELSE { [ k EXCEPT !.pc = "insert", !._username = k.temp_username ] }

\* the trigger fires for NEW, the auth.users row of subject s
ScHnuBegin(c) ==
  /\ fn = "small_cell.handle_new_user"
  /\ MayBegin(c)
  /\ \E s \in Subjects :
       LET cl == identity[s]
           k == [ Begin(s) EXCEPT !._username = ScHnuUsername(cl),
                                  !.temp_username = ScHnuUsername(cl),
                                  !._full_name = ScHnuFullName(cl) ]
       IN  IF IsNull(cl.email)
             THEN call' = [ call EXCEPT ![c] = Swallowed(k, "raise_exception") ]
             ELSE \E k2 \in ScCheck(k) : call' = [ call EXCEPT ![c] = k2 ]
  /\ now' = now + 1
  /\ UNCHANGED << store, client, fn, identity, users, nextId >>

ScHnuCheck(c) ==
  /\ fn = "small_cell.handle_new_user"
  /\ call[c].pc = "check"
  /\ \E k2 \in ScCheck(call[c]) : call' = [ call EXCEPT ![c] = k2 ]
  /\ UNCHANGED << store, client, fn, identity, users, now, nextId >>

\* "Insert user profile with conflict resolution on auth_user_id"
ScHnuInsert(c) ==
  /\ fn = "small_cell.handle_new_user"
  /\ call[c].pc = "insert"
  /\ LET k == call[c]
         row == NewRow(k, k._username, ClaimsOf(k).email, k._full_name)
         err == UpsertError(row, users)
     IN  IF err = "none"
           THEN /\ users' = UpsertTable(row, users)
                /\ nextId' = nextId + 1
                /\ call' = [ call EXCEPT ![c] = Returned(k, UpsertRow(row, users)) ]
           ELSE /\ call' = [ call EXCEPT ![c] = Swallowed(k, err) ]
                /\ UNCHANGED << users, nextId >>
  /\ UNCHANGED << store, client, fn, identity, now >>

\* "Try to get existing user profile"
ScGetLookup(c) ==
  /\ fn = "small_cell.get_or_create_user_profile(uuid)"
  /\ MayBegin(c)
  /\ \E s \in Subjects :
       LET cl == identity[s]
           k == [ Begin(s) EXCEPT !._username = ScGetUsername(cl),
                                  !.temp_username = ScGetUsername(cl),
                                  !._full_name = ScGetFullName(cl) ]
           found == SelectByAuthUserId(users, s)
       IN  IF found # {}
             THEN LookupHit(c, Begin(s), CHOOSE r \in found : TRUE)
             ELSE /\ call' = [ call EXCEPT ![c] = [ k EXCEPT !.pc = "check" ] ]
                  /\ UNCHANGED << users, nextId >>
  /\ now' = now + 1
  /\ UNCHANGED << store, client, fn, identity >>

ScGetCheck(c) ==
  /\ fn = "small_cell.get_or_create_user_profile(uuid)"
  /\ call[c].pc = "check"
  /\ \E k2 \in ScCheck(call[c]) : call' = [ call EXCEPT ![c] = k2 ]
  /\ UNCHANGED << store, client, fn, identity, users, now, nextId >>

\* "Create user profile"
ScGetInsert(c) ==
  /\ fn = "small_cell.get_or_create_user_profile(uuid)"
  /\ call[c].pc = "insert"
  /\ LET k == call[c]
         row == NewRow(k, k._username, ClaimsOf(k).email, k._full_name)
         err == UpsertError(row, users)
     IN  IF err = "none"
           THEN /\ users' = UpsertTable(row, users)
                /\ nextId' = nextId + 1
                /\ call' = [ call EXCEPT ![c] = Returned(k, UpsertRow(row, users)) ]
           ELSE /\ call' = [ call EXCEPT ![c] = Raised(k, err) ]
                /\ UNCHANGED << users, nextId >>
  /\ UNCHANGED << store, client, fn, identity, now >>

\* ------------------------------------------------------- the system
Next ==
  \E c \in Calls :
    \/ ClerkLookup(c)
    \/ ClerkCheckUsername(c)
    \/ ClerkInsert(c)
    \/ HnuFirstInsert(c)
    \/ HnuRetryInsert(c)
    \/ HnuFallbackInsert(c)
    \/ UuidLookup(c)
    \/ UuidInsert(c)
    \/ BasicLookup(c)
    \/ BasicInsert(c)
    \/ ScHnuBegin(c)
    \/ ScHnuCheck(c)
    \/ ScHnuInsert(c)
    \/ ScGetLookup(c)
    \/ ScGetCheck(c)
    \/ ScGetInsert(c)

Spec == Init /\ [][Next]_vars

\* ------------------------- handle_new_user on a table that has rows
\* The trigger of part_000 alone, fired on a public.users that earlier
\* sign-ups have filled: their usernames are the candidates the loop will try
\* for a subject with the id prefix of S1, so that the loop goes as far as the
\* rows reach.

\* the claims of the sign-ups: an email alone, and a username given in
\* raw_user_meta_data, equal to the email's local part or not
HnuClaimSets ==
  { Claim(NULL, J_AT_X, NULL, NULL, NULL),
    Claim(<< "j" >>, J_AT_Y, NULL, NULL, NULL),
    Claim(<< "k" >>, J_AT_Y, NULL, NULL, NULL) }

\* the usernames the earlier rows were given
TakenSeeds == { << "j" >>, << "k" >> }

\* how many candidates of the loop are taken: none, the first, all but the
\* last, all
TakenCounts == { 0, 1, MaxAttempts - 1, MaxAttempts }

\* auth_user_id of the i-th earlier sign-up
OtherSubject(i) == << "o" >> \o IntToText(i)

\* the row of the i-th earlier sign-up
TakenRow(i, username) ==
  [ id |-> i, auth_user_id |-> OtherSubject(i), username |-> username,
    email |-> OtherSubject(i) \o << "@","o" >>, full_name |-> << "O" >>,
    created_at |-> 0, updated_at |-> 0 ]

\* _username || _unique_suffix of attempt n
HnuCandidate(seed, id, n) == Concat(seed, HnuSuffix(id, n))

\* the table: the first m candidates for seed, and with fb (tried when all
\* the candidates are taken) the fallback username of S1 for the email
\* prefix of J_AT_X
TakenTable(seed, m, fb) ==
  { TakenRow(n + 1, HnuCandidate(seed, S1, n)) : n \in 0..(m - 1) }
    \cup (IF fb
            THEN { TakenRow(m + 1, Concat(Concat(split_part(J_AT_X, "@", 1), << "-" >>),
                                          replace(S1, "-", EmptyText))) }
            ELSE {})

InitHnu ==
  /\ fn = "part_000.handle_new_user"
  /\ identity \in [ { S1, S3 } -> HnuClaimSets ]
  /\ \E seed \in TakenSeeds, m \in TakenCounts :
       \E fb \in (IF m = MaxAttempts THEN BOOLEAN ELSE { FALSE }) :
         /\ users = TakenTable(seed, m, fb)
         /\ nextId = m + 2
  /\ call = [ c \in Calls |-> IdleCall ]
  /\ now = 1
  /\ InitStore
  /\ InitClient

NextHnu ==
  \E c \in Calls :
    \/ HnuFirstInsert(c)
    \/ HnuRetryInsert(c)
    \/ HnuFallbackInsert(c)

SpecHnu == InitHnu /\ [][NextHnu]_vars

\* ------------------------------ the functions on a table that has rows
\* Every function, fired on a public.users where earlier sign-ups hold the
\* username "j", alone or with "j" followed by each suffix the random
\* generators of the uniqueness loops may append; the server goes on running the
\* statements of the sessions that have one to run.

\* the usernames taken: j, j_<n> for floor(random() * 1000) = n, and j_<hex>
\* for the first four digits of gen_random_uuid()
TakenNames ==
  << << "j" >> >>
    \o [ i \in 1..Cardinality(RandomValues) |-> << "j","_" >> \o IntToText(i - 1) ]
    \o [ i \in 1..Cardinality(UuidValues) |-> << "j","_" >> \o UuidPrefix4(i - 1) ]

\* the claims of the sign-ups: none, an email, a name too, a username
TakenClaimSets ==
  { Claim(NULL, NULL, NULL, NULL, NULL),
    Claim(NULL, J_AT_X, NULL, NULL, NULL),
    Claim(NULL, J_AT_X, NULL, NULL, << "J"," ","D" >>),
    Claim(<< "j" >>, J_AT_Y, NULL, NULL, NULL) }

\* "j" alone is taken, or every name of TakenNames
InitTaken ==
  /\ fn \in Functions
  /\ identity \in [ { S1, S3 } -> TakenClaimSets ]
  /\ \E n \in { 1, Len(TakenNames) } :
       /\ users = { TakenRow(i, TakenNames[i]) : i \in 1..n }
       /\ nextId = n + 1
  /\ call = [ c \in Calls |-> IdleCall ]
  /\ now = 1
  /\ InitStore
  /\ InitClient

SpecTaken == InitTaken /\ [][Next]_vars /\ WF_vars(Next)

\* --------------------------- claims with empty and blank fields
\* One subject, an empty table, and claims in which the fields a claim set
\* of ClaimSets leaves out are absent, '' or ' '.

\* what an identity provider may send for a field it has no value for
BlankValues == { NULL, EmptyText, << " " >> }

\* v, or NULL when v is empty or blank
Normalized(v) == IF IsNull(v) \/ trim(v) = EmptyText THEN NULL ELSE v

\* cl with its empty and blank fields made absent
NormalizedClaims(cl) ==
  Claim(Normalized(cl.username), Normalized(cl.email), Normalized(cl.first_name),
        Normalized(cl.last_name), Normalized(cl.full_name))

BlankClaimSets ==
  { cl \in [ username : BlankValues \cup { << "j" >> },
             email : BlankValues \cup { J_AT_X, J_AT_Y },
             first_name : BlankValues \cup { << "J" >> },
             last_name : BlankValues \cup { << "D" >> },
             full_name : BlankValues \cup { << "J"," ","D" >> } ] :
      NormalizedClaims(cl) \in ClaimSets }

InitBlank ==
  /\ fn \in Functions
  /\ identity \in [ { S1 } -> BlankClaimSets ]
  /\ users = {}
  /\ call = [ c \in Calls |-> IdleCall ]
  /\ now = 1
  /\ nextId = 1
  /\ InitStore
  /\ InitClient

SpecBlank == InitBlank /\ [][Next]_vars

\* ------------------------------------ statements under row level security
\* Authenticated sessions reach the tables of stark_coral through PostgREST:
\* each statement runs as role authenticated with auth.uid() the subject of
\* its token, in a transaction of its own.  The rpc may be called with any
\* argument (GRANT EXECUTE ... TO authenticated).

\* the tables the policies scope by user
Relations == { "users", "apify_keys", "scraping_jobs" }

\* the rows of a table
Table(rel) ==
  CASE rel = "users" -> users
    [] rel = "apify_keys" -> apify_keys
    [] rel = "scraping_jobs" -> scraping_jobs

\* USING (auth.uid() = auth_user_id)
UsersPolicy(uid, r) == uid = r.auth_user_id

\* USING (user_id IN (SELECT id FROM public.users WHERE auth_user_id = auth.uid()))
OwnUserPolicy(uid, r) ==
  \E u \in users : u.auth_user_id = uid /\ u.id = r.user_id

\* the USING expression of the policy for cmd on rel; with no policy for the
\* command no row qualifies (users has none FOR DELETE)
Using(uid, rel, cmd, r) ==
  IF rel = "users" THEN cmd # "DELETE" /\ UsersPolicy(uid, r)
                   ELSE OwnUserPolicy(uid, r)

\* WITH CHECK of the policies: written out for INSERT on users, the USING
\* expression where a policy names none
WithCheck(uid, rel, cmd, r) == Using(uid, rel, cmd, r)

\* update_updated_at_column() returning NEW as it came
UpdatedAtTriggerOff(rel, new) == new

\* BEFORE UPDATE ... FOR EACH ROW on users and apify_keys:
\* NEW.updated_at = now(); RETURN NEW
UpdatedAtTrigger(rel, new) ==
  IF rel \in { "users", "apify_keys" } THEN [ new EXCEPT !.updated_at = now ] ELSE new

\* the constraint an INSERT or UPDATE of row into rel (without the rows
\* others) violates: users as InsertError, UNIQUE(user_id, key_name) on
\* apify_keys, the CHECK on scraping_jobs.status
WriteError(rel, row, others) ==
  CASE rel = "users" -> InsertError(row, others)
    [] rel = "apify_keys" ->
         IF \E r \in others : r.user_id = row.user_id /\ r.key_name = row.key_name
           THEN "apify_keys_user_id_key_name_key" ELSE "none"
    [] rel = "scraping_jobs" ->
         IF row.status \in { "pending", "running", "completed", "failed", "cancelled" }
           THEN "none" ELSE "scraping_jobs_status_check"

\* the tables after rel became tbl
Write(rel, tbl) ==
  /\ users' = IF rel = "users" THEN tbl ELSE users
  /\ apify_keys' = IF rel = "apify_keys" THEN tbl ELSE apify_keys
  /\ scraping_jobs' = IF rel = "scraping_jobs" THEN tbl ELSE scraping_jobs

\* what a statement leaves behind: the rows it returned or wrote, the rows
\* it replaced or removed, and its error
Statement(uid, rel, cmd, set, old, rows, err) ==
  [ uid |-> uid, rel |-> rel, cmd |-> cmd, set |-> set, at |-> now,
    old |-> old, rows |-> rows, err |-> err ]

\* the writes of the model stop at MaxRows rows and at time MaxClock
MayWrite == now < MaxClock

\* the rows a session may propose for rel: its columns are free, the id and
\* the timestamps are the defaults
NewRows(rel) ==
  CASE rel = "users" ->
         { [ id |-> nextId, auth_user_id |-> s, username |-> << "u" >> \o s,
             email |-> s \o << "@", "x" >>, full_name |-> NULL,
             created_at |-> now, updated_at |-> now ] : s \in Subjects }
    [] rel = "apify_keys" ->
         { [ id |-> nextId, user_id |-> u.id, key_name |-> << "k" >>,
             created_at |-> now, updated_at |-> now ] : u \in users }
    [] rel = "scraping_jobs" ->
         { [ id |-> nextId, user_id |-> u.id, status |-> "running" ] : u \in users }

\* the SET lists a session may send for rel
SetLists(rel) ==
  CASE rel = "users" ->
         { [ full_name |-> << "Z" >> ], [ updated_at |-> 0 ],
           [ created_at |-> 0, updated_at |-> 0 ] }
           \cup { [ auth_user_id |-> s ] : s \in Subjects }
    [] rel = "apify_keys" ->
         { [ key_name |-> << "n" >> ], [ updated_at |-> 0 ],
           [ created_at |-> 0, updated_at |-> 0 ] }
           \cup { [ user_id |-> u.id ] : u \in users }
    [] rel = "scraping_jobs" ->
         { [ status |-> "completed" ] } \cup { [ user_id |-> u.id ] : u \in users }

\* row r with the columns of set assigned
Assign(r, set) == [ f \in DOMAIN r |-> IF f \in DOMAIN set THEN set[f] ELSE r[f] ]

\* SELECT * FROM rel: the rows the SELECT policy lets through
SelectRows(uid, rel) ==
  /\ stmt' = Statement(uid, rel, "SELECT", NoSet, {},
                       { r \in Table(rel) : Using(uid, rel, "SELECT", r) }, "none")
  /\ UNCHANGED << fn, identity, users, call, now, nextId,
                  apify_keys, scraping_jobs, linkedin_profiles, client >>

\* INSERT INTO rel VALUES (row), for any row: the WITH CHECK of the INSERT policy, then
\* the constraints
InsertRow(uid, rel) ==
  /\ MayWrite /\ nextId <= MaxRows
  /\ \E row \in NewRows(rel) :
     LET err == IF ~WithCheck(uid, rel, "INSERT", row) THEN "insufficient_privilege"
                ELSE WriteError(rel, row, Table(rel))
     IN  IF err = "none"
           THEN /\ Write(rel, Table(rel) \cup { row })
                /\ nextId' = nextId + 1
                /\ stmt' = Statement(uid, rel, "INSERT", NoSet, {}, { row }, err)
           ELSE /\ Write(rel, Table(rel))
                /\ stmt' = Statement(uid, rel, "INSERT", NoSet, {}, {}, err)
                /\ UNCHANGED nextId
  /\ now' = now + 1
  /\ UNCHANGED << fn, identity, call, linkedin_profiles, client >>

\* UPDATE rel SET set WHERE id = id, for any id and SET list: the rows the UPDATE policy lets
\* through, the trigger, the WITH CHECK on the new row, the constraints
UpdateRow(uid, rel) ==
  /\ MayWrite
  /\ \E id \in { r.id : r \in Table(rel) }, set \in SetLists(rel) :
     LET old == { r \in Table(rel) : r.id = id /\ Using(uid, rel, "UPDATE", r) }
         new == { UpdatedAtTrigger(rel, Assign(r, set)) : r \in old }
         err == IF \E r \in new : ~WithCheck(uid, rel, "UPDATE", r)
                  THEN "insufficient_privilege"
                ELSE IF \E r \in new : WriteError(rel, r, Table(rel) \ old) # "none"
                  THEN WriteError(rel, CHOOSE r \in new : TRUE, Table(rel) \ old)
                ELSE "none"
     IN  IF err = "none"
           THEN /\ Write(rel, (Table(rel) \ old) \cup new)
                /\ stmt' = Statement(uid, rel, "UPDATE", set, old, new, err)
           ELSE /\ Write(rel, Table(rel))
                /\ stmt' = Statement(uid, rel, "UPDATE", set, {}, {}, err)
  /\ now' = now + 1
  /\ UNCHANGED << fn, identity, call, nextId, linkedin_profiles, client >>

\* DELETE FROM rel WHERE id = id, for any id: the rows the DELETE policy lets through
DeleteRow(uid, rel) ==
  /\ MayWrite
  /\ \E id \in { r.id : r \in Table(rel) } :
     LET old == { r \in Table(rel) : r.id = id /\ Using(uid, rel, "DELETE", r) }
     IN  /\ Write(rel, Table(rel) \ old)
         /\ stmt' = Statement(uid, rel, "DELETE", NoSet, old, {}, "none")
  /\ now' = now + 1
  /\ UNCHANGED << fn, identity, call, nextId, linkedin_profiles, client >>

\* rpc('get_or_create_user_profile', { user_auth_id: s }) by any subject
RpcGetOrCreate(c) == \E a \in Subjects, s \in Subjects : ClerkSelect(c, BeginAs(a, s))

\* two subjects with distinct claims, the tables empty
InitRls ==
  /\ fn = "stark_coral.get_or_create_user_profile(text)"
  /\ identity = (S1 :> Claim(NULL, J_AT_X, NULL, NULL, NULL)
                 @@ S2 :> Claim(NULL, J_AT_Y, NULL, NULL, NULL))
  /\ users = {}
  /\ call = [ c \in Calls |-> IdleCall ]
  /\ now = 1
  /\ nextId = 1
  /\ InitStore
  /\ InitClient

\* one session calls the rpc, the others send statements
NextRls ==
  \/ \E c \in { 1 } :
       \/ RpcGetOrCreate(c)
       \/ ClerkCheckUsername(c)
       \/ ClerkInsert(c)
  \/ \E uid \in { S1, S2 } : \E rel \in Relations :
       \/ SelectRows(uid, rel)
       \/ InsertRow(uid, rel)
       \/ UpdateRow(uid, rel)
       \/ DeleteRow(uid, rel)

SpecRls == InitRls /\ [][NextRls]_vars

\* ----------------------------------------- the session bootstrap of App.tsx
\* The users of the dashboard have signed up before: each has its row in
\* users, a stored profile and a scraping job.  Clerk loads, reports
\* sign-ins and sign-outs; the initialization effect of AppContent may run
\* after any of them and any number of times.

\* the i-th user of the dashboard
Visitors == << S1, S2 >>

\* the users row of the i-th user
VisitorRow(i) ==
  [ id |-> i, auth_user_id |-> Visitors[i], username |-> << "u" >> \o IntToText(i),
    email |-> << "u" >> \o IntToText(i) \o << "@","x" >>, full_name |-> NULL,
    created_at |-> 0, updated_at |-> 0 ]

\* a row of linkedin_profiles
ProfileRow(id, user_id, linkedin_url, profile_data, tags, last_updated) ==
  [ id |-> id, user_id |-> user_id, linkedin_url |-> linkedin_url,
    profile_data |-> profile_data, tags |-> tags, last_updated |-> last_updated ]

\* a row of scraping_jobs
JobRow(id, user_id, status) == [ id |-> id, user_id |-> user_id, status |-> status ]

\* getUserProfile(clerkUserId) for a user that has signed up: the row, or
\* null when the rpc answered with an error
GetUserProfileResults(u) == SelectByAuthUserId(users, u) \cup { NoRow }

\* getUserProfiles(userId) sent with the token of subject sub (NULL: none):
\* the rows the SELECT policy gives role authenticated, [] on an error
GetUserProfilesResults(sub, userId) ==
  { IF IsNull(sub) THEN {} ELSE { p \in linkedin_profiles : p.user_id = userId }, {} }

\* loadScrapingJobs(userId) sent with the token of subject sub: the rows the
\* policy of scraping_jobs lets through, [] on an error
LoadScrapingJobsResults(sub, userId) ==
  { { j \in scraping_jobs : j.user_id = userId /\ OwnUserPolicy(sub, j) }, {} }

\* useUser() turns isLoaded: a session Clerk restored, or none
ClerkLoads ==
  /\ ~clerk.isLoaded
  /\ \E u \in { Visitors[i] : i \in DOMAIN Visitors } \cup { NULL } :
       /\ clerk' = [ isLoaded |-> TRUE, isSignedIn |-> ~IsNull(u), user |-> u ]
       /\ session' = IF IsNull(u) THEN session ELSE session + 1
  /\ UNCHANGED << fn, identity, users, call, now, nextId, store,
                  initializationRef, app, run >>

\* a user signs in
SignIn ==
  /\ clerk.isLoaded /\ ~clerk.isSignedIn
  /\ session < NumRuns
  /\ \E u \in { Visitors[i] : i \in DOMAIN Visitors } :
       clerk' = [ clerk EXCEPT !.isSignedIn = TRUE, !.user = u ]
  /\ session' = session + 1
  /\ UNCHANGED << fn, identity, users, call, now, nextId, store,
                  initializationRef, app, run >>

\* the user signs out
SignOut ==
  /\ clerk.isSignedIn
  /\ clerk' = [ clerk EXCEPT !.isSignedIn = FALSE, !.user = NULL ]
  /\ UNCHANGED << fn, identity, users, call, now, nextId, store,
                  initializationRef, app, run, session >>

\* the condition of the effect without the ref
MayInitializeAgain == clerk.isSignedIn /\ ~IsNull(clerk.user)

\* if (isSignedIn && user && !initializationRef.current)
MayInitialize == clerk.isSignedIn /\ ~IsNull(clerk.user) /\ ~initializationRef

\* initializeUserProfile up to its first await: setAuthError(''), then
\* getUserProfile(user.id) is under way in run r
InitializeUserProfile(r) ==
  /\ run[r].pc = "idle"
  /\ \A q \in 1..(r - 1) : run[q].pc # "idle"
  /\ run' = [ run EXCEPT ![r] = [ IdleRun EXCEPT !.pc = "getUserProfile",
                                                 !.handler = "initializeUserProfile",
                                                 !.session = session,
                                                 !.user = clerk.user ] ]

\* the effect on [isLoaded, isSignedIn, user]
InitializationEffect ==
  /\ clerk.isLoaded
  /\ IF MayInitialize
       THEN /\ initializationRef' = TRUE
            /\ \E r \in Runs : InitializeUserProfile(r)
            /\ app' = [ app EXCEPT !.authError = FALSE, !.isLoading = FALSE ]
       ELSE IF ~clerk.isSignedIn
         THEN /\ app' = [ app EXCEPT !.userProfile = NoRow, !.profiles = {},
                                     !.scrapingJobs = {}, !.isLoading = FALSE ]
              /\ initializationRef' = FALSE
              /\ UNCHANGED run
         ELSE /\ app' = [ app EXCEPT !.isLoading = FALSE ]
              /\ UNCHANGED << initializationRef, run >>
  /\ UNCHANGED << fn, identity, users, call, now, nextId, store, clerk, session >>

\* const profile = await getUserProfile(user.id) resolves in run r: with a
\* profile setUserProfile(profile) and loadUserData(profile.id) sends its two
\* queries, with none setAuthError(...)
GetUserProfileResolves(r) ==
  /\ run[r].pc = "getUserProfile"
  /\ \E profile \in GetUserProfileResults(run[r].user) :
       IF profile # NoRow
         THEN /\ app' = [ app EXCEPT !.userProfile = profile ]
              /\ \E ps \in GetUserProfilesResults(clerk.user, profile.id),
                    js \in LoadScrapingJobsResults(clerk.user, profile.id) :
                   run' = [ run EXCEPT ![r].pc = "loadUserData",
                                       ![r].userProfile = profile,
                                       ![r].profiles = ps, ![r].jobs = js ]
         ELSE /\ app' = [ app EXCEPT !.authError = TRUE ]
              /\ run' = [ run EXCEPT ![r].pc = "done" ]
  /\ UNCHANGED << fn, identity, users, call, now, nextId, store,
                  clerk, initializationRef, session >>

\* the Promise.all of loadUserData resolves in run r: setProfiles,
\* setScrapingJobs
LoadUserDataResolves(r) ==
  /\ run[r].pc = "loadUserData"
  /\ app' = [ app EXCEPT !.profiles = run[r].profiles, !.scrapingJobs = run[r].jobs ]
  /\ run' = [ run EXCEPT ![r].pc = "done" ]
  /\ UNCHANGED << fn, identity, users, call, now, nextId, store,
                  clerk, initializationRef, session >>

\* every user has signed up, stored a profile and run a job
InitSession ==
  /\ fn = "stark_coral.get_or_create_user_profile(text)"
  /\ identity = [ s \in { S1, S2 } |-> Claim(NULL, NULL, NULL, NULL, NULL) ]
  /\ users = { VisitorRow(i) : i \in DOMAIN Visitors }
  /\ call = [ c \in Calls |-> IdleCall ]
  /\ now = 1
  /\ nextId = Len(Visitors) + 1
  /\ apify_keys = {}
  /\ linkedin_profiles =
       { ProfileRow(i, i, << "l" >> \o IntToText(i), << "d" >>, {}, 0) : i \in DOMAIN Visitors }
  /\ scraping_jobs = { JobRow(i, i, "completed") : i \in DOMAIN Visitors }
  /\ stmt = NoStatement
  /\ InitClient

NextSession ==
  \/ ClerkLoads
  \/ SignIn
  \/ SignOut
  \/ InitializationEffect
  \/ \E r \in Runs :
       \/ GetUserProfileResolves(r)
       \/ LoadUserDataResolves(r)

SpecSession == InitSession /\ [][NextSession]_vars

\* --------------------------------------------- the dashboard of App.tsx
\* A user is signed in and the bootstrap is over.  The handlers run when
\* the control that calls them is rendered; what a handler does between
\* two awaits is one step, and a query is answered under the policies with
\* the token the Clerk session holds when it is sent (none after sign-out).

\* the guards of the render are passed: the header and the main area show
MainShown ==
  /\ clerk.isLoaded /\ ~app.isLoading
  /\ clerk.isSignedIn
  /\ ~(app.authError /\ app.userProfile = NoRow)

\* the main area shows what activeTab selects
Tabbed == MainShown /\ app.currentView \notin { "user-profile", "storage" }

\* the scraper tab shows the component of view
ScraperShows(view) == Tabbed /\ app.activeTab = "scraper" /\ app.currentView = view

\* some component is rendered in the main area
Renders ==
  \/ app.currentView = "user-profile"
  \/ app.currentView = "storage"
  \/ /\ app.activeTab = "scraper"
     /\ app.currentView \in { "form", "comments", "profile-table", "profile-details" }
  \/ app.activeTab = "profiles"
  \/ app.activeTab = "jobs"

\* getAllProfiles() sent with the token of subject sub
GetAllProfilesResults(sub) == { IF IsNull(sub) THEN {} ELSE linkedin_profiles, {} }

\* handleTabChange(tab); the list it loads is put in profiles
HandleTabChange(tab) ==
  /\ MainShown
  /\ \E ps \in (CASE tab = "profiles" -> GetAllProfilesResults(clerk.user)
                  [] tab = "scraper" /\ app.userProfile # NoRow ->
                       GetUserProfilesResults(clerk.user, app.userProfile.id)
                  [] OTHER -> { app.profiles }) :
       app' = [ app EXCEPT !.activeTab = tab,
                           !.currentView = CASE tab = "profiles" -> "profiles-list"
                                             [] tab = "scraper" -> "form"
                                             [] tab = "jobs" -> "form"
                                             [] tab = "storage" -> "storage",
                           !.profiles = ps ]
  /\ UNCHANGED << fn, identity, users, call, now, nextId, store,
                  clerk, initializationRef, run, session >>

\* handleOpenProfile, from the user menu of the header
HandleOpenProfile ==
  /\ MainShown
  /\ app' = [ app EXCEPT !.currentView = "user-profile" ]
  /\ UNCHANGED << fn, identity, users, call, now, nextId, store,
                  clerk, initializationRef, run, session >>

\* onBack of UserProfile: setCurrentView('form')
UserProfileBack ==
  /\ MainShown /\ app.currentView = "user-profile"
  /\ app' = [ app EXCEPT !.currentView = "form" ]
  /\ UNCHANGED << fn, identity, users, call, now, nextId, store,
                  clerk, initializationRef, run, session >>

\* handleBackToForm, onBack of CommentResults
HandleBackToForm ==
  /\ ScraperShows("comments")
  /\ app' = [ app EXCEPT !.currentView = "form", !.previousView = "form" ]
  /\ UNCHANGED << fn, identity, users, call, now, nextId, store,
                  clerk, initializationRef, run, session >>

\* handleBackToPrevious, from the profile table and the profile details
HandleBackToPrevious ==
  /\ ScraperShows("profile-table") \/ ScraperShows("profile-details")
  /\ app' = CASE app.previousView = "comments" -> [ app EXCEPT !.currentView = "comments" ]
              [] app.previousView = "profiles-list" ->
                   [ app EXCEPT !.currentView = "profiles-list", !.activeTab = "profiles" ]
              [] app.previousView = "profile-table" ->
                   [ app EXCEPT !.currentView = "profile-table" ]
              [] OTHER -> [ app EXCEPT !.currentView = "form" ]
  /\ UNCHANGED << fn, identity, users, call, now, nextId, store,
                  clerk, initializationRef, run, session >>

\* handleViewProfileDetails, from the profile table and from the data table
\* of the profiles tab
HandleViewProfileDetails ==
  /\ \/ ScraperShows("profile-table")
     \/ Tabbed /\ app.activeTab = "profiles" /\ app.currentView # "single-profile-details"
  /\ app' = IF app.activeTab = "profiles"
              THEN [ app EXCEPT !.previousView = "profiles-list",
                                !.currentView = "single-profile-details" ]
              ELSE [ app EXCEPT !.previousView = app.currentView,
                                !.currentView = "profile-details" ]
  /\ UNCHANGED << fn, identity, users, call, now, nextId, store,
                  clerk, initializationRef, run, session >>

\* handleBackToProfilesList, onBack of the details of the profiles tab
HandleBackToProfilesList ==
  /\ Tabbed /\ app.activeTab = "profiles" /\ app.currentView = "single-profile-details"
  /\ app' = [ app EXCEPT !.currentView = "profiles-list" ]
  /\ UNCHANGED << fn, identity, users, call, now, nextId, store,
                  clerk, initializationRef, run, session >>

\* handleKeySelect(key), from the key manager under the form
HandleKeySelect ==
  /\ ScraperShows("form")
  /\ \E k \in apify_keys :
       /\ OwnUserPolicy(clerk.user, k)
       /\ app' = [ app EXCEPT !.selectedKeyId = k.id ]
  /\ UNCHANGED << fn, identity, users, call, now, nextId, store,
                  clerk, initializationRef, run, session >>

\* a scrape handler up to its first await: the early returns, or the query
\* for the selected key is under way in run r
BeginScrape(r, handler, type) ==
  /\ run[r].pc = "idle"
  /\ \A q \in 1..(r - 1) : run[q].pc # "idle"
  /\ run' = [ run EXCEPT ![r] =
                [ IdleRun EXCEPT !.handler = handler, !.type = type,
                                 !.userProfile = app.userProfile,
                                 !.selectedKeyId = app.selectedKeyId,
                                 !.pc = IF app.userProfile = NoRow \/ app.selectedKeyId = 0
                                          THEN "returned" ELSE "key" ] ]
  /\ UNCHANGED << fn, identity, users, call, now, nextId, store,
                  clerk, initializationRef, app, session >>

\* handleScrape(type, url), onScrape of the form
HandleScrape(r) ==
  /\ ScraperShows("form")
  /\ \E type \in { "post_comments", "profile_details", "mixed" } :
       BeginScrape(r, "handleScrape", type)

\* handleScrapeSelectedCommenterProfiles(profileUrls), from the comments
HandleScrapeSelectedCommenterProfiles(r) ==
  /\ ScraperShows("comments")
  /\ BeginScrape(r, "handleScrapeSelectedCommenterProfiles", "profile_details")

\* the query for the key resolves: 'Invalid API key selected' and return, or
\* setIsScraping(true) and createScrapingJob sends its INSERT
KeyResolves(r) ==
  /\ run[r].pc = "key"
  /\ IF \E k \in apify_keys : k.id = run[r].selectedKeyId /\ OwnUserPolicy(clerk.user, k)
       THEN /\ app' = [ app EXCEPT !.isScraping = TRUE ]
            /\ run' = [ run EXCEPT ![r].pc = "create" ]
       ELSE /\ run' = [ run EXCEPT ![r].pc = "returned" ]
            /\ UNCHANGED app
  /\ UNCHANGED << fn, identity, users, call, now, nextId, store,
                  clerk, initializationRef, session >>

\* UPDATE scraping_jobs SET status = status WHERE id = id, sent with the
\* token of subject sub: the table afterwards
UpdateStatus(sub, id, status) ==
  { IF j.id = id /\ OwnUserPolicy(sub, j) THEN [ j EXCEPT !.status = status ] ELSE j :
      j \in scraping_jobs }

\* the finally of a handler whose catch forgets it when something threw
IsScrapingAfterCatch(threw) == threw

\* finally { setIsScraping(false) }
IsScrapingAfter(threw) == FALSE

\* createScrapingJob resolves in run r: the row is there with status
\* 'running' and the list is loaded again; or the INSERT was rejected, it
\* throws, the catch finds no jobId and the handler ends
CreateResolves(r) ==
  /\ run[r].pc = "create"
  /\ LET row == JobRow(nextId, run[r].userProfile.id, "running")
     IN  IF WithCheck(clerk.user, "scraping_jobs", "INSERT", row)
           THEN /\ scraping_jobs' = scraping_jobs \cup { row }
                /\ nextId' = nextId + 1
                /\ \E js \in { { j \in scraping_jobs' : j.user_id = row.user_id }, {} } :
                     app' = [ app EXCEPT !.scrapingJobs = js ]
                /\ run' = [ run EXCEPT ![r].pc = "scrape", ![r].jobId = row.id ]
           ELSE /\ app' = [ app EXCEPT !.isScraping = IsScrapingAfter(TRUE) ]
                /\ run' = [ run EXCEPT ![r].pc = "done", ![r].threw = TRUE ]
                /\ UNCHANGED << scraping_jobs, nextId >>
  /\ UNCHANGED << fn, identity, users, call, now, apify_keys, linkedin_profiles, stmt,
                  clerk, initializationRef, session >>

\* the view a finished scrape of run r switches to; a mixed scrape that
\* found no profile urls switches to none
ViewAfterScrape(r, found) ==
  CASE run[r].handler = "handleScrapeSelectedCommenterProfiles" ->
         [ app EXCEPT !.previousView = "comments", !.currentView = "profile-table" ]
    [] run[r].type = "post_comments" -> [ app EXCEPT !.currentView = "comments" ]
    [] run[r].type = "mixed" /\ ~found -> app
    [] OTHER -> [ app EXCEPT !.previousView = "form", !.currentView = "profile-table" ]

\* the scrape of run r ends: it went through, the view is switched,
\* updateScrapingJob(jobId, 'completed') and the lists are loaded again; or
\* a step threw and the catch calls updateScrapingJob(jobId, 'failed');
\* then the finally
ScrapeResolves(r) ==
  /\ run[r].pc = "scrape"
  /\ \E ok \in BOOLEAN, found \in BOOLEAN :
       LET status == IF ok THEN "completed" ELSE "failed"
           shown == IF ok THEN ViewAfterScrape(r, found) ELSE app
           userId == run[r].userProfile.id
       IN  /\ scraping_jobs' = UpdateStatus(clerk.user, run[r].jobId, status)
           /\ \E js \in { { j \in scraping_jobs' : j.user_id = userId /\ OwnUserPolicy(clerk.user, j) }, {} },
                 ps \in (IF ok THEN GetUserProfilesResults(clerk.user, userId)
                               ELSE { app.profiles }) :
                app' = [ shown EXCEPT !.scrapingJobs = js, !.profiles = ps,
                                      !.isScraping = IsScrapingAfter(~ok) ]
           /\ run' = [ run EXCEPT ![r].pc = "done", ![r].threw = ~ok ]
  /\ UNCHANGED << fn, identity, users, call, now, nextId, apify_keys, linkedin_profiles,
                  stmt, clerk, initializationRef, session >>

\* handleCancelJob(jobId), from the jobs table, for a job the list shows as
\* running
HandleCancelJob ==
  /\ Tabbed /\ app.activeTab = "jobs"
  /\ \E j \in app.scrapingJobs :
       /\ j.status = "running"
       /\ scraping_jobs' = UpdateStatus(clerk.user, j.id, "cancelled")
       /\ IF app.userProfile # NoRow
            THEN \E js \in { { i \in scraping_jobs' : i.user_id = app.userProfile.id
                                                     /\ OwnUserPolicy(clerk.user, i) }, {} } :
                   app' = [ app EXCEPT !.scrapingJobs = js ]
            ELSE UNCHANGED app
  /\ UNCHANGED << fn, identity, users, call, now, nextId, apify_keys, linkedin_profiles,
                  stmt, clerk, initializationRef, run, session >>

\* the first user is signed in, its profile and lists are loaded, no key is
\* selected; every user has a key, a stored profile and a finished job
InitApp ==
  /\ fn = "stark_coral.get_or_create_user_profile(text)"
  /\ identity = [ s \in { S1, S2 } |-> Claim(NULL, NULL, NULL, NULL, NULL) ]
  /\ users = { VisitorRow(i) : i \in DOMAIN Visitors }
  /\ call = [ c \in Calls |-> IdleCall ]
  /\ now = 1
  /\ nextId = Len(Visitors) + 1
  /\ apify_keys = { [ id |-> i, user_id |-> i, key_name |-> << "k" >>,
                      created_at |-> 0, updated_at |-> 0 ] : i \in DOMAIN Visitors }
  /\ linkedin_profiles =
       { ProfileRow(i, i, << "l" >> \o IntToText(i), << "d" >>, {}, 0) : i \in DOMAIN Visitors }
  /\ scraping_jobs = { JobRow(i, i, "completed") : i \in DOMAIN Visitors }
  /\ stmt = NoStatement
  /\ clerk = [ isLoaded |-> TRUE, isSignedIn |-> TRUE, user |-> Visitors[1] ]
  /\ initializationRef = TRUE
  /\ app = [ InitialState EXCEPT !.userProfile = VisitorRow(1), !.isLoading = FALSE,
                                 !.profiles = { p \in linkedin_profiles : p.user_id = 1 },
                                 !.scrapingJobs = { j \in scraping_jobs : j.user_id = 1 } ]
  /\ run = [ r \in Runs |-> IdleRun ]
  /\ session = 1

NextApp ==
  \/ \E tab \in { "scraper", "profiles", "jobs", "storage" } : HandleTabChange(tab)
  \/ HandleOpenProfile
  \/ UserProfileBack
  \/ HandleBackToForm
  \/ HandleBackToPrevious
  \/ HandleViewProfileDetails
  \/ HandleBackToProfilesList
  \/ HandleKeySelect
  \/ HandleCancelJob
  \/ SignOut
  \/ InitializationEffect
  \/ \E r \in Runs :
       \/ HandleScrape(r)
       \/ HandleScrapeSelectedCommenterProfiles(r)
       \/ KeyResolves(r)
       \/ CreateResolves(r)
       \/ ScrapeResolves(r)

SpecApp == InitApp /\ [][NextApp]_vars

\* ------------------------------------------- the profile store of App.tsx
\* getProfilesWithOptimization runs in the dashboard of each user; run r is
\* its call in the browser of the r-th user, who is signed in and has the
\* profile of VisitorRow(r).  linkedin_profiles is shared: every
\* authenticated session reads all of it, and writes pass the INSERT and
\* UPDATE policies and UNIQUE (linkedin_url).

\* the i-th profile URL
Url(i) == << "l" >> \o IntToText(i)

\* the inputs of the function: one URL, two URLs, one URL twice
ProfileUrlLists == { << Url(1) >>, << Url(1), Url(2) >>, << Url(1), Url(1) >> }

\* an item of the dataset of the scraper
Item(linkedinUrl) == [ linkedinUrl |-> linkedinUrl ]

\* checkProfileExists(linkedinUrl) sent with the token of subject sub: the
\* row .single() finds under USING (true), null when there is none
\* (PGRST116) and null on any other error
checkProfileExists(sub, linkedinUrl) ==
  { p \in linkedin_profiles : ~IsNull(sub) /\ p.linkedin_url = linkedinUrl } \cup { NoRow }

\* every URL is pushed to urlsToScrape
UrlsToScrapeAlways(urlsToScrape, url, existingProfile) == Append(urlsToScrape, url)

\* if (existingProfile) { ... } else { urlsToScrape.push(url) }
UrlsToScrapeAfter(urlsToScrape, url, existingProfile) ==
  IF existingProfile # NoRow THEN urlsToScrape ELSE Append(urlsToScrape, url)

\* getProfilesWithOptimization(profileUrls, apifyService, userProfile.id) up
\* to its first await
GetProfilesWithOptimization(r) ==
  /\ run[r].pc = "idle"
  /\ \E profileUrls \in ProfileUrlLists :
       run' = [ run EXCEPT ![r] =
                  [ IdleRun EXCEPT !.pc = "check",
                                   !.handler = "getProfilesWithOptimization",
                                   !.user = Visitors[r],
                                   !.userProfile = VisitorRow(r),
                                   !.profileUrls = profileUrls ] ]
  /\ UNCHANGED << fn, identity, users, call, now, nextId, store,
                  clerk, initializationRef, app, session >>

\* const existingProfile = await checkProfileExists(url) resolves for the
\* next URL of the loop; after the last one the function returns, or calls
\* scrapeProfiles(urlsToScrape)
CheckResolves(r) ==
  /\ run[r].pc = "check"
  /\ LET i == Len(run[r].existingProfile) + 1
         url == run[r].profileUrls[i]
     IN  \E existingProfile \in checkProfileExists(run[r].user, url) :
           LET results == IF existingProfile # NoRow
                            THEN Append(run[r].results, existingProfile.profile_data)
                            ELSE run[r].results
               urlsToScrape == UrlsToScrapeAfter(run[r].urlsToScrape, url, existingProfile)
           IN  run' = [ run EXCEPT
                          ![r].existingProfile = Append(@, existingProfile),
                          ![r].results = results,
                          ![r].urlsToScrape = urlsToScrape,
                          ![r].pc = IF i < Len(run[r].profileUrls) THEN "check"
                                    ELSE IF Len(urlsToScrape) > 0 THEN "scrape"
                                    ELSE "done" ]
  /\ UNCHANGED << fn, identity, users, call, now, nextId, store,
                  clerk, initializationRef, app, session >>

\* scrapeProfiles(urlsToScrape) and getDatasetItems(datasetId) resolve: an
\* item for each URL, with its linkedinUrl or without, or one of them throws
\* and the function ends with it
ScrapeProfiles(r) ==
  /\ run[r].pc = "scrape"
  /\ \E outcome \in { "items", "bare", "throws" } :
       run' = [ run EXCEPT
                  ![r].scraped = Append(@, run[r].urlsToScrape),
                  ![r].newProfilesData =
                     IF outcome = "throws" THEN << >>
                     ELSE [ i \in 1..Len(run[r].urlsToScrape) |->
                              Item(IF outcome = "items" THEN run[r].urlsToScrape[i] ELSE NULL) ],
                  ![r].threw = (outcome = "throws"),
                  ![r].pc = IF outcome = "throws" THEN "done" ELSE "save" ]
  /\ UNCHANGED << fn, identity, users, call, now, nextId, store,
                  clerk, initializationRef, app, session >>

\* upsertProfile(userId, linkedinUrl, profileData, tags) sent with the token
\* of subject uid: INSERT ... ON CONFLICT (linkedin_url) DO UPDATE.  The
\* proposed row passes the WITH CHECK of the INSERT policy; a stored row of
\* the URL passes the USING of the UPDATE policy or the statement fails; the
\* statement returns the row, and the function null on an error
upsertProfile(uid, userId, linkedinUrl, profileData, tags) ==
  LET proposed == ProfileRow(nextId, userId, linkedinUrl, profileData, tags, now)
      conflict == { p \in linkedin_profiles : p.linkedin_url = linkedinUrl }
      err == IF IsNull(uid) \/ ~OwnUserPolicy(uid, proposed) THEN "insufficient_privilege"
             ELSE IF \E p \in conflict : ~OwnUserPolicy(uid, p) THEN "insufficient_privilege"
             ELSE "none"
      new == IF conflict = {} THEN { proposed }
             ELSE { [ p EXCEPT !.user_id = userId, !.profile_data = profileData,
                               !.tags = tags, !.last_updated = now ] : p \in conflict }
  IN  /\ stmt' = Statement(uid, "linkedin_profiles", "UPSERT",
                           [ user_id |-> userId, linkedin_url |-> linkedinUrl,
                             profile_data |-> profileData, tags |-> tags,
                             last_updated |-> now ],
                           IF err = "none" THEN conflict ELSE {},
                           IF err = "none" THEN new ELSE {}, err)
      /\ linkedin_profiles' = IF err = "none" THEN (linkedin_profiles \ conflict) \cup new
                                              ELSE linkedin_profiles
      /\ nextId' = IF err = "none" /\ conflict = {} THEN nextId + 1 ELSE nextId
      /\ now' = now + 1

\* the loop over newProfilesData, one item: await upsertProfile(...) for an
\* item with a linkedinUrl, results.push(profileData) whatever it returned;
\* after the last item the function returns
SaveProfile(r) ==
  /\ run[r].pc = "save"
  /\ LET profileData == Head(run[r].newProfilesData)
         rest == Tail(run[r].newProfilesData)
     IN  /\ IF IsNull(profileData.linkedinUrl)
              THEN /\ UNCHANGED << now, nextId, linkedin_profiles, stmt >>
                   /\ run' = [ run EXCEPT ![r].newProfilesData = rest,
                                          ![r].pc = IF rest = << >> THEN "done" ELSE "save" ]
              ELSE /\ MayWrite
                   /\ upsertProfile(run[r].user, run[r].userProfile.id,
                                    profileData.linkedinUrl, profileData, {})
                   /\ run' = [ run EXCEPT ![r].newProfilesData = rest,
                                          ![r].results = Append(@, profileData),
                                          ![r].pc = IF rest = << >> THEN "done" ELSE "save" ]
  /\ UNCHANGED << fn, identity, users, call, apify_keys, scraping_jobs,
                  clerk, initializationRef, app, session >>

\* the caller has taken the results; the user may start the next call
ReturnResults(r) ==
  /\ run[r].pc = "done" /\ run[r].handler = "getProfilesWithOptimization"
  /\ run' = [ run EXCEPT ![r] = IdleRun ]
  /\ UNCHANGED << fn, identity, users, call, now, nextId, store,
                  clerk, initializationRef, app, session >>

\* every user has signed up; no profile is stored
InitProfiles ==
  /\ fn = "stark_coral.get_or_create_user_profile(text)"
  /\ identity = [ s \in { S1, S2 } |-> Claim(NULL, NULL, NULL, NULL, NULL) ]
  /\ users = { VisitorRow(i) : i \in DOMAIN Visitors }
  /\ call = [ c \in Calls |-> IdleCall ]
  /\ now = 1
  /\ nextId = Len(Visitors) + 1
  /\ InitStore
  /\ InitClient

NextProfiles ==
  \E r \in DOMAIN Visitors :
    \/ GetProfilesWithOptimization(r)
    \/ CheckResolves(r)
    \/ ScrapeProfiles(r)
    \/ SaveProfile(r)
    \/ ReturnResults(r)

SpecProfiles == InitProfiles /\ [][NextProfiles]_vars

\* --------------------------------- the session of the dashboard
\* initializeUserProfile of App.tsx awaits getUserProfile(user.id), the rpc
\* of session c, and keeps what came back.

\* getUserProfile: null when the rpc answered with an error, else its data
getUserProfile(c) == IF call[c].raised THEN NoRow ELSE call[c].user_profile

\* the userProfile state: null until setUserProfile(profile)
userProfile(c) == IF call[c].pc = "done" THEN getUserProfile(c) ELSE NoRow

\* the authError state is set: 'Failed to create user profile. ...'
authError(c) == call[c].pc = "done" /\ getUserProfile(c) = NoRow

\* if (authError && !userProfile): the error screen is rendered
ProfileErrorScreen(c) == authError(c) /\ userProfile(c) = NoRow

\* ------------------------------------------------------------ claims
\* the functions that look the profile up before they create it
GetOrCreateFunctions ==
  { "stark_coral.get_or_create_user_profile(text)",
    "part_000.get_or_create_user_profile(uuid)",
    "part_000.get_or_create_user_profile(text)",
    "small_cell.get_or_create_user_profile(uuid)" }

\* the rows of subject s
RowsOf(s) == { r \in users : r.auth_user_id = s }

\* session c has its answer
Done(c) == call[c].pc = "done"

\* session c came back with a profile
GotProfile(c) == Done(c) /\ call[c].user_profile # NoRow

\* every call made so far is for one subject
OneSubjectOnly ==
  \A c, d \in Calls :
    (call[c].pc # "idle" /\ call[d].pc # "idle") => call[c].user_auth_id = call[d].user_auth_id

C2_UsernameUnique ==
  \A r1, r2 \in users : r1.username = r2.username => r1 = r2

\* two sessions for different subjects had the same candidate and both passed
\* the EXISTS check before either inserted: one row, one refusal
C2_Witness ==
  /\ fn = "stark_coral.get_or_create_user_profile(text)"
  /\ \E c, d \in Calls :
       /\ call[c].user_auth_id # call[d].user_auth_id
       /\ GotProfile(c)
       /\ Done(d) /\ call[d].raised /\ call[d].sqlerr = "users_username_key"
       /\ call[d]._username = call[c].user_profile.username

\* session c makes its call in this step, for a subject that has a row
BeginsWithRow(c) ==
  /\ fn \in GetOrCreateFunctions
  /\ call[c].pc = "idle"
  /\ call'[c].pc # "idle"
  /\ RowsOf(call'[c].user_auth_id) # {}

\* C3: a call for a subject whose profile an earlier call created returns
\* that profile: the id it returns is the id of the subject's row, so two
\* calls in sequence return the same id.
C3_SecondCallSameId ==
  [][ \A c \in Calls :
        BeginsWithRow(c) =>
          /\ call'[c].pc = "done"
          /\ ~call'[c].raised
          /\ { r.id : r \in RowsOf(call'[c].user_auth_id) } = { call'[c].user_profile.id }
          /\ \A d \in Calls :
               (GotProfile(d) /\ call[d].user_auth_id = call'[c].user_auth_id) =>
                 call'[c].user_profile.id = call[d].user_profile.id ]_vars

\* two calls for one subject have returned, the second one after the first
\* created the row
C3_Witness ==
  /\ fn \in GetOrCreateFunctions
  /\ \E c, d \in Calls :
       /\ c # d
       /\ call[c].user_auth_id = call[d].user_auth_id
       /\ GotProfile(c) /\ GotProfile(d)
       /\ call[c].user_profile.id = call[d].user_profile.id
       /\ call[c].user_profile.created_at = call[c].tx
       /\ call[d].user_profile.created_at < call[d].tx

\* C4: a call that finds the subject's profile returns that row as it is and
\* writes nothing: users is the same before and after, and no variable of
\* the username loop is set.
C4_LookupHitReadOnly ==
  [][ \A c \in Calls :
        BeginsWithRow(c) =>
          /\ users' = users
          /\ nextId' = nextId
          /\ call'[c].user_profile \in users
          /\ call'[c] = Returned(Begin(call'[c].user_auth_id), call'[c].user_profile) ]_vars

\* a session came back with a row another transaction had created, and the
\* row still has the timestamps of its creation
C4_Witness ==
  \E c \in Calls :
    /\ fn \in GetOrCreateFunctions
    /\ GotProfile(c)
    /\ call[c].user_profile \in users
    /\ call[c].user_profile.created_at < call[c].tx
    /\ call[c].user_profile.updated_at = call[c].user_profile.created_at

\* a claim that is there: not NULL, not empty, not only blanks
Present(v) == ~IsNull(v) /\ trim(v) # EmptyText

\* the displayName precedence of the specification
SpecDisplayName(cl, email) ==
  IF Present(cl.full_name) THEN cl.full_name
  ELSE IF Present(cl.first_name) /\ Present(cl.last_name)
    THEN Concat(Concat(cl.first_name, << " " >>), cl.last_name)
  ELSE IF Present(cl.first_name) THEN cl.first_name
  ELSE IF Present(cl.last_name) THEN cl.last_name
  ELSE split_part(email, "@", 1)

\* the username seed of the specification
SpecUsernameSeed(cl, email) ==
  IF Present(cl.username) THEN cl.username ELSE split_part(email, "@", 1)

\* C5: an INSERT refused for the uniqueness of auth_user_id or of email is not
\* retried with another username; the call ends with the error.  Stated of
\* handle_new_user: whenever the last error of a call is such a violation,
\* the call has ended raising it.
C5_IdentityConflictNotRetried ==
  \A c \in Calls :
    (fn = "part_000.handle_new_user"
       /\ call[c].sqlerr \in { "users_auth_user_id_key", "users_email_key" })
      => (Done(c) /\ call[c].raised)

\* C6: a username uniqueness error reaches the caller only after all the
\* bounded attempts and the fallback; two calls for different subjects with
\* the same candidate never fail with it.  Stated of the deployed
\* get_or_create_user_profile(text).
C6_UsernameConflictNotSurfaced ==
  \A c \in Calls :
    (fn = "stark_coral.get_or_create_user_profile(text)"
       /\ Done(c) /\ call[c].raised /\ call[c].sqlerr = "users_username_key")
      => call[c]._attempt_count >= MaxAttempts

\* C7: a first-time call for claims without an email succeeds, and the
\* profile's email is the placeholder made of the subject id, which no other
\* profile has.  Stated of the deployed get_or_create_user_profile(text), for
\* the calls no uniqueness violation refused.
C7_PlaceholderEmail ==
  \A c \in Calls :
    (fn = "stark_coral.get_or_create_user_profile(text)"
       /\ Done(c) /\ IsNull(ClaimsOf(call[c]).email)
       /\ call[c].sqlerr \notin UniqueViolations)
      => /\ GotProfile(c)
         /\ ~IsNull(call[c].user_profile.email)
         /\ call[c].user_profile.email = ClerkEmail(call[c].user_auth_id, NULL)
         /\ \A r \in users :
              r.email = call[c].user_profile.email => r.id = call[c].user_profile.id

\* C8: a first-time call for claims without any name field creates a profile
\* whose full_name is the local part of the resolved email, the placeholder
\* when the claims have no email.  Stated of the deployed
\* get_or_create_user_profile(text), for the calls no uniqueness violation
\* refused.
C8_NamelessDisplayName ==
  \A c \in Calls :
    (fn = "stark_coral.get_or_create_user_profile(text)"
       /\ Done(c)
       /\ ~Present(ClaimsOf(call[c]).full_name)
       /\ ~Present(ClaimsOf(call[c]).first_name)
       /\ ~Present(ClaimsOf(call[c]).last_name)
       /\ call[c].sqlerr \notin UniqueViolations)
      => /\ GotProfile(c)
         /\ call[c].user_profile.full_name =
              split_part(ClerkEmail(call[c].user_auth_id, ClaimsOf(call[c]).email), "@", 1)

\* C9: the full_name of a created profile is the first applicable value of:
\* full name, first name and last name, first name, last name, local part of
\* the email.  Stated of the deployed get_or_create_user_profile(text).
C9_DisplayNamePrecedence ==
  \A c \in Calls :
    (fn = "stark_coral.get_or_create_user_profile(text)" /\ GotProfile(c))
      => call[c].user_profile.full_name =
           SpecDisplayName(ClaimsOf(call[c]), call[c].user_profile.email)

\* C10: the username tried first is the username claim, or else the local
\* part of the email: a profile created in an empty table from a full name
\* and an email has the local part of the email as its username.  Stated of
\* the deployed get_or_create_user_profile(text).
C10_UsernameSeed ==
  \A c \in Calls :
    (fn = "stark_coral.get_or_create_user_profile(text)"
       /\ GotProfile(c) /\ users = { call[c].user_profile }
       /\ Present(ClaimsOf(call[c]).full_name) /\ Present(ClaimsOf(call[c]).email))
      => /\ call[c].user_profile.username =
              SpecUsernameSeed(ClaimsOf(call[c]), call[c].user_profile.email)
         /\ call[c].user_profile.full_name = ClaimsOf(call[c]).full_name
         /\ call[c].user_profile.email = ClaimsOf(call[c]).email

\* the username a call tries first, by the deployed function
SeedOf(k) ==
  CASE fn = "stark_coral.get_or_create_user_profile(text)" -> ClerkUsername(ClaimsOf(k))
    [] fn = "part_000.handle_new_user" -> HnuUsername(ClaimsOf(k))
    [] fn = "part_000.get_or_create_user_profile(uuid)" -> UuidUsername(k.user_auth_id, ClaimsOf(k))
    [] fn = "part_000.get_or_create_user_profile(text)" -> BasicUsername(k.user_auth_id)
    [] fn = "small_cell.handle_new_user" -> ScHnuUsername(ClaimsOf(k))
    [] fn = "small_cell.get_or_create_user_profile(uuid)" -> ScGetUsername(ClaimsOf(k))

\* v is u followed by a non-empty suffix
IsProperPrefix(u, v) ==
  ~IsNull(u) /\ ~IsNull(v) /\ Len(v) > Len(u) /\ SubSeq(v, 1, Len(u)) = u

\* session c inserts its row in this step
Creates(c) ==
  /\ call'[c].pc = "done"
  /\ call'[c].user_profile \in users'
  /\ \A r \in users : r.id # call'[c].user_profile.id

\* a row of another subject has the username session k tries first
SeedTaken(k, tbl) ==
  \E r \in tbl : r.username = SeedOf(k) /\ r.auth_user_id # k.user_auth_id

\* C11 as stated: a call of the deployed function whose first candidate was
\* taken by a row of another subject (its loop appended a suffix) succeeds,
\* with a username that is the candidate followed by a non-empty suffix.
C11_CollisionSucceeds ==
  \A c \in Calls :
    (fn = "stark_coral.get_or_create_user_profile(text)"
       /\ Done(c) /\ ~IsNull(call[c]._username)
       /\ call[c]._username # SeedOf(call[c])
       /\ SeedTaken(call[c], users))
      => /\ GotProfile(c)
         /\ IsProperPrefix(SeedOf(call[c]), call[c].user_profile.username)

\* C11 amended: when a row of another subject has the username U a call
\* tries first, every profile the call creates (the final fallback of
\* handle_new_user apart) has U followed by a non-empty suffix as username,
\* which no existing row has, and the existing rows stay as they are; the
\* call may still end with an error.
C11_CollisionGetsSuffix ==
  [][ \A c \in Calls :
        (Creates(c) /\ SeedTaken(call'[c], users) /\ call[c].pc # "fallback") =>
          /\ IsProperPrefix(SeedOf(call'[c]), call'[c].user_profile.username)
          /\ \A r \in users :
               r \in users' /\ r.username # call'[c].user_profile.username ]_vars

\* a profile was created with a suffixed username while another subject's
\* row has the username tried first
C11_Witness ==
  \E c \in Calls :
    /\ fn \in { "stark_coral.get_or_create_user_profile(text)", "part_000.handle_new_user" }
    /\ GotProfile(c)
    /\ call[c].user_profile.created_at = call[c].tx
    /\ SeedTaken(call[c], users)
    /\ IsProperPrefix(SeedOf(call[c]), call[c].user_profile.username)

\* session c runs the INSERT of the loop in this step
LoopInsert(c) == call[c].pc \in { "idle", "insert" } /\ call'[c] # call[c]

\* a row of tbl has the auth_user_id, the username or the email of the INSERT
Collides(tbl, auth_user_id, username, email) ==
  \E r \in tbl :
    r.auth_user_id = auth_user_id \/ r.username = username \/ r.email = email

\* C12: the loop of handle_new_user runs its INSERT with the attempt counter
\* 0..9 only, so at most 10 times; the counter goes up by exactly one when,
\* and only when, an INSERT of the loop meets a uniqueness violation; it
\* never exceeds 10, and the fallback is reached with the counter at 10.
C12_AttemptsBounded ==
  [][ \A c \in Calls :
        LET n == call[c]._attempt_count
            k == call'[c]
        IN  /\ k._attempt_count \in { n, n + 1 }
            /\ k._attempt_count <= MaxAttempts
            /\ LoopInsert(c) => n < MaxAttempts
            /\ (k._attempt_count = n + 1) <=>
                 (LoopInsert(c) /\ users' = users /\ ~k.raised)
            /\ (k._attempt_count = n + 1) =>
                 Collides(users, k.user_auth_id,
                          HnuCandidate(SeedOf(k), k.user_auth_id, n), ClaimsOf(k).email)
            /\ (k.pc = "fallback") => k._attempt_count = MaxAttempts
            /\ (call[c].pc = "fallback") => n = MaxAttempts ]_vars

\* ten usernames in a row were taken: the counter is at 10 and the call is
\* at its fallback INSERT
C12_Witness ==
  \E c \in Calls :
    /\ call[c].pc = "fallback"
    /\ call[c]._attempt_count = MaxAttempts
    /\ call[c].sqlerr = "users_username_key"
    /\ \A n \in 0..(MaxAttempts - 1) :
         UsernameExists(users, HnuCandidate(SeedOf(call[c]), call[c].user_auth_id, n))

\* C13: every call that has started comes to its end, returning or raising,
\* whatever usernames the table holds and whatever the random generators
\* yield.
C13_CallsTerminate ==
  \A c \in Calls : (call[c].pc # "idle") ~> Done(c)

\* the local part of the email, '-', and the subject id without its hyphens
SpecFallbackName(k) ==
  Concat(Concat(split_part(ClaimsOf(k).email, "@", 1), << "-" >>),
         SelectSeq(k.user_auth_id, LAMBDA ch : ch # "-"))

\* C14: after the tenth collision handle_new_user makes one more INSERT, with
\* the fallback username; when nothing collides the profile is created with
\* that username, and when it collides the call ends with the uniqueness
\* error, no row is created and nothing more is tried.
C14_FallbackOnce ==
  [][ \A c \in Calls :
        (call[c].pc = "fallback" /\ call'[c] # call[c]) =>
          LET k == call[c]
              name == SpecFallbackName(k)
          IN  /\ k._attempt_count = MaxAttempts
              /\ call'[c].pc = "done"
              /\ call'[c]._attempt_count = MaxAttempts
              /\ IF Collides(users, k.user_auth_id, name, ClaimsOf(k).email)
                   THEN /\ users' = users
                        /\ call'[c].raised
                        /\ call'[c].sqlerr \in UniqueViolations
                        /\ call'[c].user_profile = NoRow
                   ELSE /\ ~call'[c].raised
                        /\ call'[c].user_profile.username = name
                        /\ call'[c].user_profile.auth_user_id = k.user_auth_id
                        /\ call'[c].user_profile.email = ClaimsOf(k).email
                        /\ users' = users \cup { call'[c].user_profile }
                        /\ call'[c].user_profile \notin users ]_vars

\* ten candidates were taken for two sign-ups: the fallback username of one
\* was free and is the username of its profile, that of the other was taken
\* and its call ended with the error
C14_Witness ==
  \E c, d \in Calls :
    /\ call[c]._attempt_count = MaxAttempts /\ GotProfile(c)
    /\ call[c].user_profile.username = SpecFallbackName(call[c])
    /\ call[d]._attempt_count = MaxAttempts /\ Done(d) /\ call[d].raised
    /\ call[d].sqlerr = "users_username_key"
    /\ RowsOf(call[d].user_auth_id) = {}

\* the candidate of attempt n: the seed, and from the first retry on '-', the
\* first 8 characters of the id, '-' and n
SpecCandidate(seed, id, n) ==
  IF n = 0 THEN seed
  ELSE seed \o << "-" >> \o SubSeq(id, 1, IdPrefixLen) \o << "-" >> \o IntToText(n)

\* C15: the INSERT of attempt n >= 1 of handle_new_user has as username the
\* seed, '-', the first 8 characters of the new record's id, '-' and n: the
\* row it creates has that username, and the violation it meets is with that
\* username (or the id or email); the seed stays what it was; the candidate
\* differs from those of all earlier attempts and from the seed.
C15_RetryCandidates ==
  [][ \A c \in Calls :
        LoopInsert(c) =>
          LET n == call[c]._attempt_count
              k == call'[c]
              cand == SpecCandidate(SeedOf(k), k.user_auth_id, n)
          IN  /\ (k.pc = "insert") => (k._username = SeedOf(k))
              /\ (users' # users) =>
                   (k.user_profile.username = cand /\ users' = users \cup { k.user_profile })
              /\ (k._attempt_count = n + 1) =>
                   Collides(users, k.user_auth_id, cand, ClaimsOf(k).email)
              /\ \A m \in 0..(n - 1) : SpecCandidate(SeedOf(k), k.user_auth_id, m) # cand ]_vars

\* a profile was created at the last retry, with the seed, the id prefix and
\* 9 as its username
C15_Witness ==
  \E c \in Calls :
    /\ GotProfile(c)
    /\ call[c]._attempt_count = MaxAttempts - 1
    /\ call[c].sqlerr = "users_username_key"
    /\ call[c].user_profile.username =
         SpecCandidate(SeedOf(call[c]), call[c].user_auth_id, MaxAttempts - 1)
    /\ call[c]._username = SeedOf(call[c])

\* C16: a call whose INSERT failed for another reason than the uniqueness
\* of the username ends raising the error, and no call ends returning
\* normally unless a profile of its subject was created or found.
C16_NoSilentFailure ==
  \A c \in Calls :
    Done(c) =>
      /\ (call[c].sqlerr \notin { "none", "users_username_key" }) => call[c].raised
      /\ ~call[c].raised =>
           (GotProfile(c) /\ RowsOf(call[c].user_auth_id) # {})

\* the username, email and full_name the deployed function puts in the row
\* of subject s for the claims cl
FirstRow(s, cl) ==
  CASE fn = "stark_coral.get_or_create_user_profile(text)" ->
         [ username |-> ClerkUsername(cl), email |-> ClerkEmail(s, cl.email),
           full_name |-> ClerkFullName(cl) ]
    [] fn = "part_000.handle_new_user" ->
         [ username |-> HnuUsername(cl), email |-> cl.email, full_name |-> HnuFullName(cl) ]
    [] fn = "part_000.get_or_create_user_profile(uuid)" ->
         [ username |-> UuidUsername(s, cl), email |-> cl.email, full_name |-> UuidFullName(cl) ]
    [] fn = "part_000.get_or_create_user_profile(text)" ->
         [ username |-> BasicUsername(s), email |-> BasicEmail(s), full_name |-> BasicFullName(s) ]
    [] fn = "small_cell.handle_new_user" ->
         [ username |-> ScHnuUsername(cl), email |-> cl.email, full_name |-> ScHnuFullName(cl) ]
    [] fn = "small_cell.get_or_create_user_profile(uuid)" ->
         [ username |-> ScGetUsername(cl), email |-> cl.email, full_name |-> ScGetFullName(cl) ]

\* session c is the only one that has made its call
OnlyCall(c) == \A d \in Calls \ { c } : call[d].pc = "idle"

\* C17: empty and blank claim fields are treated as absent ones: the first
\* call of the deployed get_or_create_user_profile(text), on an empty table,
\* ends as it does for the claims with those fields absent, with the same
\* username, email and full_name or with no profile.
C17_BlankIsAbsent ==
  \A c \in Calls :
    (fn = "stark_coral.get_or_create_user_profile(text)" /\ Done(c) /\ OnlyCall(c)) =>
      LET want == FirstRow(call[c].user_auth_id, NormalizedClaims(ClaimsOf(call[c])))
      IN  IF IsNull(want.username) \/ IsNull(want.email)
            THEN ~GotProfile(c)
            ELSE /\ GotProfile(c)
                 /\ call[c].user_profile.username = want.username
                 /\ call[c].user_profile.email = want.email
                 /\ call[c].user_profile.full_name = want.full_name

\* C18: a session whose INSERT was refused by the uniqueness of auth_user_id
\* reads the profile again: it ends holding the row of its subject as
\* userProfile, the one the winner holds, and does not show the error screen.
C18_RaceLoserRereads ==
  \A c \in Calls :
    (fn = "stark_coral.get_or_create_user_profile(text)"
       /\ Done(c) /\ call[c].sqlerr = "users_auth_user_id_key") =>
      /\ userProfile(c) \in RowsOf(call[c].user_auth_id)
      /\ ~ProfileErrorScreen(c)
      /\ \A d \in Calls :
           (GotProfile(d) /\ call[d].user_auth_id = call[c].user_auth_id) =>
             userProfile(d).id = userProfile(c).id

\* C19: no step of a provisioning call removes a profile: every row of users
\* is there after the step, for the same subject and with the same id, and no
\* subject gets a second one.
C19_NeverRemoved ==
  [][ \A r \in users :
        /\ \E r2 \in users' : r2.auth_user_id = r.auth_user_id /\ r2.id = r.id
        /\ \A r2 \in users' : r2.auth_user_id = r.auth_user_id => r2.id = r.id ]_vars

\* a call for a subject that had its row has ended, and the row is there
C19_Witness ==
  \E c \in Calls : \E r \in users :
    /\ Done(c)
    /\ r.auth_user_id = call[c].user_auth_id
    /\ r.created_at < call[c].tx
    /\ call[c].tx > 1

\* C20: no step of a provisioning call changes the username of a row that
\* exists, the ON CONFLICT (auth_user_id) DO UPDATE branch included.
C20_UsernameKept ==
  [][ \A r \in users : \A r2 \in users' :
        (r2.id = r.id \/ r2.auth_user_id = r.auth_user_id) => r2.username = r.username ]_vars

\* an INSERT met the row of its subject and took the DO UPDATE branch: the
\* row was updated after its creation, by a call that had another username
\* to give
C20_Witness ==
  \E c \in Calls : \E r \in users :
    /\ fn \in { "small_cell.handle_new_user", "small_cell.get_or_create_user_profile(uuid)" }
    /\ Done(c) /\ call[c].user_profile = r
    /\ r.updated_at > r.created_at
    /\ r.updated_at = call[c].tx
    /\ call[c]._username # r.username

\* row r of rel is a row of subject s: its users row, or a row whose user_id
\* is the id of its users row
BelongsTo(rel, r, s) ==
  IF rel = "users" THEN r.auth_user_id = s
  ELSE \E u \in users : u.id = r.user_id /\ u.auth_user_id = s

\* the rows a statement returned, wrote, replaced or removed are rows of the
\* subject that sent it
StatementsKeepToOwnRows ==
  stmt.err = "none" => \A r \in stmt.rows \cup stmt.old : BelongsTo(stmt.rel, r, stmt.uid)

\* C21: no operation open to a subject returns, creates or modifies a row of
\* another subject: the rows of a statement on users, apify_keys or
\* scraping_jobs are the sender's, and the row get_or_create_user_profile
\* returns or creates is the row of the subject whose token sent the rpc.
C21_OwnDataOnly ==
  /\ StatementsKeepToOwnRows
  /\ \A c \in Calls : GotProfile(c) => call[c].user_profile.auth_user_id = call[c].sub

\* C23: every UPDATE of a users row or an apify_keys row leaves updated_at at
\* the time of the update, whatever the statement supplied, and created_at as
\* the statement left it: the supplied value, or else the old one.
C23_UpdatedAtRefreshed ==
  (stmt.cmd = "UPDATE" /\ stmt.rel \in { "users", "apify_keys" }) =>
    \A r \in stmt.rows :
      /\ r.updated_at = stmt.at
      /\ \E o \in stmt.old :
           /\ o.id = r.id
           /\ r.created_at = IF "created_at" \in DOMAIN stmt.set
                               THEN stmt.set.created_at ELSE o.created_at

\* an UPDATE that supplied an updated_at of its own changed a row of
\* apify_keys some time after the row was created
C23_Witness ==
  /\ stmt.cmd = "UPDATE" /\ stmt.rel = "apify_keys" /\ stmt.rows # {}
  /\ "updated_at" \in DOMAIN stmt.set /\ "created_at" \notin DOMAIN stmt.set
  /\ stmt.set.updated_at # stmt.at
  /\ \A o \in stmt.old : o.created_at < stmt.at /\ o.updated_at < stmt.at

\* run r has called getUserProfile
Invoked(r) == run[r].handler = "initializeUserProfile" /\ run[r].pc # "idle"

\* C22: AppContent calls getUserProfile at most once in a signed-in session,
\* however often the initialization effect runs, and a step calls it only
\* with the guard down, which after the first call only the sign-out branch
\* of the effect brings about.
C22_OncePerSession ==
  /\ [](\A r \in Runs : \A q \in Runs :
          (Invoked(r) /\ Invoked(q) /\ run[r].session = run[q].session) => r = q)
  /\ [][ (\E r \in Runs : ~Invoked(r) /\ Invoked(r)')
           => (~initializationRef /\ initializationRef') ]_vars

\* getUserProfile was called in one session and, after a sign-out and a
\* sign-in, in the next; the guard is up
C22_Witness ==
  /\ initializationRef
  /\ clerk.isSignedIn
  /\ \E r \in Runs : \E q \in Runs :
       Invoked(r) /\ Invoked(q) /\ run[r].session < run[q].session

\* C26: with the user signed out and the sign-out branch of the effect run,
\* userProfile is null and profiles and scrapingJobs are empty, whatever
\* resolves afterwards.
C26_SignedOutStateEmpty ==
  (clerk.isLoaded /\ ~clerk.isSignedIn /\ ~initializationRef) =>
    /\ app.userProfile = NoRow
    /\ app.profiles = {}
    /\ app.scrapingJobs = {}

\* a scrape handler is between its first line and its return in run r
Executing(r) == run[r].pc \in { "key", "create", "scrape" }

\* the statuses a job ends in
TerminalStatuses == { "completed", "failed", "cancelled" }

\* C24: no step changes the status of a job that is 'completed', 'failed' or
\* 'cancelled'.
C24_TerminalStatusKept ==
  [][ \A j \in scraping_jobs :
        j.status \in TerminalStatuses =>
          \E i \in scraping_jobs' : i.id = j.id /\ i.status = j.status ]_vars

\* C25: when a scrape handler that created a job returns, the job is
\* 'completed' if nothing threw and 'failed' if something did.
C25_JobSettledOnReturn ==
  [][ \A r \in Runs :
        (Executing(r) /\ run'[r].pc = "done" /\ run'[r].jobId # 0) =>
          \E j \in scraping_jobs' :
            /\ j.id = run'[r].jobId
            /\ j.status = IF run'[r].threw THEN "failed" ELSE "completed" ]_vars

\* C27: for a signed-in user the main area always renders some view.
C27_SomeViewShown == MainShown => Renders

\* C29: isScraping is false whenever no scrape handler is executing, and a
\* handler that returns early leaves isScraping as it was.
C29_IsScrapingOnlyWhileRunning ==
  /\ []((\A r \in Runs : ~Executing(r)) => ~app.isScraping)
  /\ [][ \A r \in Runs :
           (run[r].pc # "returned" /\ run'[r].pc = "returned") =>
             app'.isScraping = app.isScraping ]_vars

\* one handler returned early for want of a key, another set isScraping,
\* threw after its job was created and has ended
C29_Witness ==
  /\ ~app.isScraping
  /\ \E r \in Runs : \E q \in Runs :
       /\ run[r].pc = "returned"
       /\ run[q].pc = "done" /\ run[q].threw /\ run[q].jobId # 0

\* the URLs of the first n inputs for which checkProfileExists returned null
RECURSIVE Unstored(_, _, _)
Unstored(profileUrls, existingProfile, n) ==
  IF n = 0 THEN << >>
  ELSE IF existingProfile[n] = NoRow
    THEN Append(Unstored(profileUrls, existingProfile, n - 1), profileUrls[n])
    ELSE Unstored(profileUrls, existingProfile, n - 1)

\* the profile_data of the profiles checkProfileExists returned for the
\* first n inputs
RECURSIVE FromStore(_, _)
FromStore(existingProfile, n) ==
  IF n = 0 THEN << >>
  ELSE IF existingProfile[n] = NoRow
    THEN FromStore(existingProfile, n - 1)
    ELSE Append(FromStore(existingProfile, n - 1), existingProfile[n].profile_data)


\* C28 as stated: a URL for which checkProfileExists returned a stored
\* profile is never passed to the scraper and its profile_data is in the
\* result; every other input URL is passed to scrapeProfiles in one call;
\* and no step calls scrapeProfiles when every input URL is stored.
C28_PartitionsUrls ==
  /\ [](\A r \in DOMAIN Visitors :
          LET in == run[r].profileUrls
              ex == run[r].existingProfile
              found(u) == \E i \in DOMAIN ex : in[i] = u /\ ex[i] # NoRow
          IN  /\ \A i \in DOMAIN ex :
                   ex[i] # NoRow =>
                     /\ \A k \in DOMAIN run[r].scraped :
                          \A j \in DOMAIN run[r].scraped[k] : run[r].scraped[k][j] # in[i]
                     /\ \E k \in DOMAIN run[r].results : run[r].results[k] = ex[i].profile_data
              /\ Len(run[r].scraped) <= 1
              /\ run[r].pc \in { "save", "done" } =>
                   \A i \in DOMAIN in :
                     ~found(in[i]) =>
                       \E k \in DOMAIN run[r].scraped :
                         \E j \in DOMAIN run[r].scraped[k] : run[r].scraped[k][j] = in[i])
  /\ [][ \A r \in DOMAIN Visitors :
           Len(run'[r].scraped) > Len(run[r].scraped) =>
             \E i \in DOMAIN run[r].profileUrls :
               \A p \in linkedin_profiles : p.linkedin_url # run[r].profileUrls[i] ]_vars

\* C28, by occurrence: urlsToScrape holds, in input order, the URLs of the
\* inputs for which checkProfileExists returned null, and the result begins
\* with the profile_data of the profiles it returned for the others;
\* scrapeProfiles is called once with urlsToScrape after the last check when
\* that list is not empty, and not at all when it is empty.
C28_PartitionsOccurrences ==
  \A r \in DOMAIN Visitors :
    LET in == run[r].profileUrls
        ex == run[r].existingProfile
        n == Len(ex)
        stored == FromStore(ex, n)
    IN  /\ run[r].urlsToScrape = Unstored(in, ex, n)
        /\ Len(run[r].results) >= Len(stored)
        /\ SubSeq(run[r].results, 1, Len(stored)) = stored
        /\ run[r].scraped \in { << >>, << run[r].urlsToScrape >> }
        /\ run[r].scraped # << >> => n = Len(in)
        /\ run[r].pc \in { "save", "done" } =>
             (run[r].scraped = << >> <=> run[r].urlsToScrape = << >>)

\* one call found every input stored and has returned without the scraper;
\* another found the first of two URLs stored, had the scraper called with
\* the second alone, and has returned the stored profile_data first
C28_Witness ==
  \E r \in DOMAIN Visitors : \E q \in DOMAIN Visitors :
    /\ run[r].pc = "done" /\ run[r].profileUrls # << >>
    /\ \A i \in DOMAIN run[r].profileUrls : run[r].existingProfile[i] # NoRow
    /\ run[r].scraped = << >>
    /\ Len(run[r].results) = Len(run[r].profileUrls)
    /\ run[q].pc = "done" /\ run[q].profileUrls = << Url(1), Url(2) >>
    /\ run[q].existingProfile[1] # NoRow /\ run[q].existingProfile[2] = NoRow
    /\ run[q].scraped = << << Url(2) >> >>
    /\ run[q].results = << run[q].existingProfile[1].profile_data, Item(Url(2)) >>

\* the step is an upsertProfile
Upserts == now' # now /\ stmt'.cmd = "UPSERT"

\* C30: linkedin_profiles holds at most one row per linkedin_url; an
\* upsertProfile for a stored URL leaves that row with the profile_data,
\* tags, last_updated and user_id of the call and adds none, whichever user
\* calls it; and a rejected upsertProfile returns null and leaves the table
\* as it was.
C30_OneRowPerUrl ==
  /\ [](\A p \in linkedin_profiles : \A q \in linkedin_profiles :
          p.linkedin_url = q.linkedin_url => p = q)
  /\ [][ Upserts =>
           \A p \in linkedin_profiles :
             p.linkedin_url = stmt'.set.linkedin_url =>
               /\ Cardinality(linkedin_profiles') = Cardinality(linkedin_profiles)
               /\ \E q \in linkedin_profiles' :
                    /\ q.id = p.id /\ q.linkedin_url = p.linkedin_url
                    /\ q.profile_data = stmt'.set.profile_data
                    /\ q.tags = stmt'.set.tags
                    /\ q.last_updated = stmt'.set.last_updated
                    /\ q.user_id = stmt'.set.user_id ]_vars
  /\ [][ (Upserts /\ stmt'.err # "none") =>
           (stmt'.rows = {} /\ linkedin_profiles' = linkedin_profiles) ]_vars

=============================================================================
